---- MODULE Spec2Model ----
(***************************************************************************)
(* The task tree of ll (src/ll/src/task_tree.rs): the forest of tasks      *)
(* behind one RwLock, the event pump (report_all), the deferred garbage    *)
(* collector (mark_for_gc / garbage_collect) and the spawn wrappers.       *)
(***************************************************************************)
EXTENDS Integers, Sequences, FiniteSets, TLC

\* ------------------------------------------------------------------ bounds
\* ids handed out by UniqID::new() in one behaviour of the tree specification
MaxTasks == 3
\* ids handed out in one behaviour of the pump specification
MaxPumpTasks == 2
\* ticks of the wall clock (SystemTime::now)
MaxTime == 1
\* ids waiting in report_end in the tree specification
MaxQueue == 2
\* reporters registered with add_reporter
MaxReporters == 2
\* threads that run spawn / spawn_sync
MaxCallers == 1
\* clones of one Task handle alive at a time
MaxClones == 2
\* ticks of the wall clock in the specification with the fair GC loop
MaxLiveTime == 2
\* ids handed out in one behaviour of the data specification
MaxDataTasks == 2
\* the largest value written with add_data / add_data_transitive
MaxValue == 1

\* the tasks created under tagged names
MaxTagTasks == 2
\* the symbols of a name or a tag handed to extract_tags; the tags per name
MaxNameLen == 2
MaxTagLen == 2
MaxTags == 2
\* the largest total of a progress pair
MaxTotal == 13
\* the tasks of a tree drawn by the terminal status
MaxStatusTasks == 3
\* the render loop threads show() starts, and the tasks they draw
MaxLoops == 2
MaxTermTasks == 2

\* TaskTree::new sets remove_task_after_done_ms: 0
remove_task_after_done_ms == 0

\* ------------------------------------------------------------------- state
VARIABLES
    tree_internal,        \* TaskTreeInternal, the value behind the RwLock
    force_flush,          \* TaskTree.force_flush (AtomicBool)
    INCREMENTAL_UNIQ_ID,  \* the process-wide id counter
    now,                  \* the wall clock
    writer_stuck,         \* a thread holds the write lock and never returns
    calls,                \* per thread: reporter calls report_all still has to make
    spawns,               \* per caller thread: position inside spawn / spawn_sync
    delivered,            \* per reporter and task id: the calls received for it, in order
    registered_at,        \* per reporter: the id counter when add_reporter ran (history)
    handles,              \* per task id: the Arc<TaskData> behind its Task handles
    created,              \* the tasks inserted so far, per tree, in order (history)
    other_tree,           \* a second TaskTree of the process: its create_task in flight
    panicked,             \* reporters whose call panicked; whether the pump thread died
    eval,                 \* a call of one of the crate's pure functions: arguments, result
    held,                 \* per thread: the tree lock guard alive in its frame
    term                  \* the TermStatus, its render loops, the stdio locks and the cursor

vars == <<tree_internal, force_flush, INCREMENTAL_UNIQ_ID, now, writer_stuck,
          calls, spawns, delivered, registered_at, handles, created, other_tree,
          panicked, eval, held, term>>

\* the variables the tree operations of one TaskTree never touch
hist == <<handles, created, other_tree, panicked, eval, term>>

\* the background pump thread; caller threads are 1..MaxCallers
PumpThread == 0
Callers == 1..MaxCallers
Threads == {PumpThread} \cup Callers
ReporterIds == 1..MaxReporters

\* Option<T>: None is <<>>, Some(x) is <<x>>
None == <<>>
Some(x) == <<x>>

\* TermStatus::new: not enabled, no frame on the terminal, no render loop;
\* with it the process's stdout / stderr locks, the TermStatus RwLock and
\* the cursor row
NewTermStatus ==
    [enabled |-> FALSE, current_height |-> 0, loops |-> <<>>,
     stdio |-> None, lock |-> None, cursor |-> 0]

\* no pure function is being called
NoEval == [fn |-> "none"]

\* ------------------------------------------------------- TaskStatus, Task
Running == [kind |-> "Running"]
Success == [tag |-> "Success"]
Failure(msg) == [tag |-> "Failure", msg |-> msg]
Finished(result, at) == [kind |-> "Finished", result |-> result, finished_at |-> at]

IsFinished(task) == task.status.kind = "Finished"

\* what a reporter reads off the status of the snapshot it is handed
StatusTag(task) == IF IsFinished(task) THEN task.status.result.tag ELSE "Running"

\* ------------------------------------------------------------------- Data
\* A string is the sequence of its symbols: "#", " " and words that hold
\* neither, so <<"k", " ", "#", "trace">> is the string "k #trace".

\* str::split(sep): the pieces between the separators, the empty ones included
RECURSIVE split(_, _)
split(s, sep) ==
    IF \A i \in 1..Len(s) : s[i] # sep
    THEN <<s>>
    ELSE LET i == CHOOSE i \in 1..Len(s) :
                    s[i] = sep /\ \A j \in 1..(i - 1) : s[j] # sep
         IN  <<SubSeq(s, 1, i - 1)>> \o split(SubSeq(s, i + 1, Len(s)), sep)

\* str::trim: the string without its leading and trailing whitespace
trim(s) ==
    LET solid == {i \in 1..Len(s) : s[i] # " "}
    IN  IF solid = {}
        THEN <<>>
        ELSE SubSeq(s, CHOOSE i \in solid : \A j \in solid : i <= j,
                       CHOOSE i \in solid : \A j \in solid : j <= i)

IsNonEmpty(s) == s # <<>>

\* mutant: the pieces are not trimmed
extract_tags_Untrimmed(string_with_tags) ==
    LET key_and_tags == SelectSeq(split(string_with_tags, "#"), IsNonEmpty)
    IN  IF Len(key_and_tags) < 2
        THEN [key |-> string_with_tags, tags |-> {}]
        ELSE [key |-> key_and_tags[1],
              tags |-> {key_and_tags[i] : i \in 2..Len(key_and_tags)}]

\* utils::extract_tags: split at '#', trim every piece, drop the empty ones;
\* fewer than two pieces left, the string as given is the key; else the first
\* piece is the key and the others are its tags.
extract_tags(string_with_tags) ==
    LET pieces == split(string_with_tags, "#")
        key_and_tags == SelectSeq([i \in 1..Len(pieces) |-> trim(pieces[i])], IsNonEmpty)
    IN  IF Len(key_and_tags) < 2
        THEN [key |-> string_with_tags, tags |-> {}]
        ELSE [key |-> key_and_tags[1],
              tags |-> {key_and_tags[i] : i \in 2..Len(key_and_tags)}]

\* Data::empty
Data_empty == [x \in {} |-> x]

\* mutant: an entry already under the clean key keeps its tags
Data_add_KeepTags(data, key, value) ==
    LET kt == extract_tags(key)
        tags == IF kt.key \in DOMAIN data THEN data[kt.key].tags ELSE kt.tags
    IN  (kt.key :> [value |-> value, tags |-> tags]) @@ data

\* Data::add: the key is split into the clean key and its tags, and
\* BTreeMap::insert puts the entry under the clean key in place of the old one
Data_add(data, key, value) ==
    LET kt == extract_tags(key)
    IN  (kt.key :> [value |-> value, tags |-> kt.tags]) @@ data

\* mutant: the entries already in the map win
Data_merge_KeepOwn(data, other) ==
    data @@ other

\* Data::merge: every entry of other is inserted, replacing the one under its key
Data_merge(data, other) ==
    other @@ data

\* a task name as a caller writes it, without tags
PlainName == <<"task">>

\* the TaskInternal built by create_task_internal
NewTaskInternal(id, name, parent_names, data_transitive) ==
    [id |-> id, status |-> Running, name |-> extract_tags(name).key,
     parent_names |-> parent_names,
     tags |-> extract_tags(name).tags, data |-> Data_empty,
     data_transitive |-> data_transitive, progress |-> None,
     keep_subtree_until_finished |-> FALSE]

\* TaskInternal::mark_done: the status is overwritten unconditionally
TaskInternal_mark_done(task, error_message, t) ==
    [task EXCEPT !.status =
        Finished(IF error_message = None THEN Success ELSE Failure(error_message[1]), t)]

\* --------------------------------------------------------- TaskTreeInternal
EmptyFn == [x \in {} |-> x]

NewTree ==
    [tasks_internal |-> EmptyFn,
     parent_to_children |-> EmptyFn,
     child_to_parent |-> EmptyFn,
     root_tasks |-> {},
     reporters |-> 0,
     tasks_marked_for_deletion |-> EmptyFn,
     report_start |-> <<>>,
     report_end |-> <<>>,
     data_transitive |-> Data_empty]

Tasks(tree) == DOMAIN tree.tasks_internal

ChildrenOf(tree, id) ==
    IF id \in DOMAIN tree.parent_to_children THEN tree.parent_to_children[id] ELSE {}

\* mutant: root_tasks.insert(id) outside the else branch
RootsAfterCreate_Always(tree, id, has_parent) ==
    tree.root_tasks \cup {id}

\* the root set after create_task_internal
RootsAfterCreate(tree, id, has_parent) ==
    IF has_parent THEN tree.root_tasks ELSE tree.root_tasks \cup {id}

\* mutant: the parent id is not looked up: the task is hung under it, found
\* or not
create_task_internal_LinkMissing(tree, id, name, parent) ==
    LET found == parent # None /\ parent[1] \in Tasks(tree)
        parent_id == parent[1]
        data_transitive ==
            IF found
            THEN Data_merge(tree.data_transitive,
                            tree.tasks_internal[parent_id].data_transitive)
            ELSE tree.data_transitive
        parent_names ==
            IF found
            THEN Append(tree.tasks_internal[parent_id].parent_names,
                        tree.tasks_internal[parent_id].name)
            ELSE <<>>
    IN  [tree EXCEPT
            !.parent_to_children =
                IF parent # None
                THEN [p \in DOMAIN @ \cup {parent_id} |->
                        IF p = parent_id THEN ChildrenOf(tree, p) \cup {id} ELSE @[p]]
                ELSE @,
            !.child_to_parent =
                IF parent # None THEN (id :> parent_id) @@ @ ELSE @,
            !.root_tasks = RootsAfterCreate(tree, id, parent # None),
            !.tasks_internal = (id :> NewTaskInternal(id, name, parent_names, data_transitive)) @@ @,
            !.report_start = Append(@, id)]

\* TaskTree::create_task_internal with the fresh id `id`
create_task_internal(tree, id, name, parent) ==
    LET has_parent == parent # None /\ parent[1] \in Tasks(tree)
        parent_id == parent[1]
        data_transitive ==
            IF has_parent
            THEN Data_merge(tree.data_transitive,
                            tree.tasks_internal[parent_id].data_transitive)
            ELSE tree.data_transitive
        parent_names ==
            IF has_parent
            THEN Append(tree.tasks_internal[parent_id].parent_names,
                        tree.tasks_internal[parent_id].name)
            ELSE <<>>
    IN  [tree EXCEPT
            !.parent_to_children =
                IF has_parent
                THEN [p \in DOMAIN @ \cup {parent_id} |->
                        IF p = parent_id THEN ChildrenOf(tree, p) \cup {id} ELSE @[p]]
                ELSE @,
            !.child_to_parent =
                IF has_parent THEN (id :> parent_id) @@ @ ELSE @,
            !.root_tasks = RootsAfterCreate(tree, id, has_parent),
            !.tasks_internal = (id :> NewTaskInternal(id, name, parent_names, data_transitive)) @@ @,
            !.report_start = Append(@, id)]

\* mutant: no task on the way to the root is asked whether it holds its subtree
AncestorWalk_Free(tree, p) ==
    "free"

\* first loop of mark_for_gc: walk from id to the root looking for a task that
\* holds its subtree. The loop only advances when the task is found, so a
\* missing task on the path keeps it spinning.
RECURSIVE AncestorWalk(_, _)
AncestorWalk(tree, p) ==
    IF p \notin Tasks(tree) THEN "diverges"
    ELSE IF tree.tasks_internal[p].keep_subtree_until_finished
            /\ ~IsFinished(tree.tasks_internal[p]) THEN "held"
    ELSE IF p \in DOMAIN tree.child_to_parent
         THEN AncestorWalk(tree, tree.child_to_parent[p])
    ELSE "free"

\* second loop of mark_for_gc: the ids reached from id through parent_to_children
RECURSIVE Subtree(_, _)
Subtree(tree, id) ==
    {id} \cup UNION {Subtree(tree, c) : c \in ChildrenOf(tree, id)}

\* mutant: insert(id, SystemTime::now()) for every id of `ids`
MarkAll_Refresh(marked, ids, t) ==
    [s \in DOMAIN marked \cup ids |-> IF s \in ids THEN t ELSE marked[s]]

\* entry(id).or_insert_with(SystemTime::now) for every id of `ids`
MarkAll(marked, ids, t) ==
    [s \in DOMAIN marked \cup ids |-> IF s \in DOMAIN marked THEN marked[s] ELSE t]

\* mutant: the call stops after marking the subtree of id
mark_for_gc_NoRecursion(tree, id, t) ==
    LET walk == AncestorWalk(tree, id)
        seen == Subtree(tree, id) \cap Tasks(tree)
    IN  IF walk = "diverges" THEN [diverges |-> TRUE, tree |-> tree]
        ELSE IF walk = "held" THEN [diverges |-> FALSE, tree |-> tree]
        ELSE IF \E s \in seen : ~IsFinished(tree.tasks_internal[s])
             THEN [diverges |-> FALSE, tree |-> tree]
        ELSE [diverges |-> FALSE,
              tree |-> [tree EXCEPT !.tasks_marked_for_deletion = MarkAll(@, seen, t)]]

\* TaskTreeInternal::mark_for_gc; the result says whether the call returns
RECURSIVE mark_for_gc(_, _, _)
mark_for_gc(tree, id, t) ==
    LET walk == AncestorWalk(tree, id)
        seen == Subtree(tree, id) \cap Tasks(tree)
        marked_tree == [tree EXCEPT !.tasks_marked_for_deletion = MarkAll(@, seen, t)]
    IN  IF walk = "diverges" THEN [diverges |-> TRUE, tree |-> tree]
        ELSE IF walk = "held" THEN [diverges |-> FALSE, tree |-> tree]
        ELSE IF \E s \in seen : ~IsFinished(tree.tasks_internal[s])
             THEN [diverges |-> FALSE, tree |-> tree]
        ELSE IF id \in DOMAIN tree.child_to_parent
             THEN mark_for_gc(marked_tree, tree.child_to_parent[id], t)
        ELSE [diverges |-> FALSE, tree |-> marked_tree]

\* mutant: the end event is queued without looking the task up
mark_done_Unchecked(tree, id, error_message, t) ==
    [diverges |-> FALSE, tree |-> [tree EXCEPT !.report_end = Append(@, id)]]

\* TaskTree::mark_done under the write lock
mark_done(tree, id, error_message, t) ==
    IF id \notin Tasks(tree) THEN [diverges |-> FALSE, tree |-> tree]
    ELSE LET done == [tree EXCEPT !.tasks_internal[id] =
                                    TaskInternal_mark_done(@, error_message, t)]
             gc == mark_for_gc(done, id, t)
         IN  IF gc.diverges THEN gc
             ELSE [diverges |-> FALSE,
                   tree |-> [gc.tree EXCEPT !.report_end = Append(@, id)]]

\* mutant: the write reaches the whole subtree of the task
add_data_transitive_for_task_Subtree(tree, id, key, value) ==
    [tree EXCEPT !.tasks_internal =
        [t \in DOMAIN @ |->
            IF t \in Subtree(tree, id)
            THEN [@[t] EXCEPT !.data_transitive = Data_add(@, key, value)]
            ELSE @[t]]]

\* TaskTree::add_data
add_data(tree, id, key, value) ==
    IF id \in Tasks(tree)
    THEN [tree EXCEPT !.tasks_internal[id].data = Data_add(@, key, value)]
    ELSE tree

\* TaskTree::add_data_transitive_for_task
add_data_transitive_for_task(tree, id, key, value) ==
    IF id \in Tasks(tree)
    THEN [tree EXCEPT !.tasks_internal[id].data_transitive = Data_add(@, key, value)]
    ELSE tree

\* TaskTree::add_data_transitive
add_data_transitive(tree, key, value) ==
    [tree EXCEPT !.data_transitive = Data_add(@, key, value)]

\* TaskTree::task_progress
task_progress(tree, id, done, total) ==
    IF id \in Tasks(tree)
    THEN [tree EXCEPT !.tasks_internal[id].progress = Some(<<done, total>>)]
    ELSE tree

\* TaskTree::start_trace
start_trace(tree, id) ==
    IF id \in Tasks(tree)
    THEN [tree EXCEPT !.tasks_internal[id].keep_subtree_until_finished = TRUE]
    ELSE tree

\* TaskTree::dump_trace: the walk from id over parent_to_children; Err when a
\* task it reaches is not in tasks_internal ("lost task"), else the TaskTrace
\* of every task reached
dump_trace(tree, id) ==
    LET reached == Subtree(tree, id)
    IN  IF reached \subseteq Tasks(tree)
        THEN [ok |-> TRUE,
              tasks |-> [t \in reached |->
                  [finished_at |->
                        IF IsFinished(tree.tasks_internal[t])
                        THEN Some(tree.tasks_internal[t].status.finished_at)
                        ELSE None,
                   children |-> ChildrenOf(tree, t)]]]
        ELSE [ok |-> FALSE, tasks |-> EmptyFn]

\* the ids garbage_collect deletes at time t
WillDelete(tree, t) ==
    {id \in DOMAIN tree.tasks_marked_for_deletion :
        t - tree.tasks_marked_for_deletion[id] > remove_task_after_done_ms}

Restrict(f, S) == [x \in DOMAIN f \cap S |-> f[x]]

\* TaskTreeInternal::garbage_collect
garbage_collect(tree, t) ==
    LET will_delete == WillDelete(tree, t)
        gone(p) == {c \in will_delete :
                        c \in DOMAIN tree.child_to_parent /\ tree.child_to_parent[c] = p}
    IN  [tree EXCEPT
            !.tasks_internal = Restrict(@, DOMAIN @ \ will_delete),
            !.parent_to_children =
                [p \in DOMAIN @ \ will_delete |-> @[p] \ gone(p)],
            !.root_tasks = @ \ will_delete,
            !.child_to_parent = Restrict(@, DOMAIN @ \ will_delete),
            !.tasks_marked_for_deletion = Restrict(@, DOMAIN @ \ will_delete)]

\* mutant: the snapshot shows the task as it was when it was queued for its
\* start report
RECURSIVE Snapshots_AtEnqueue(_, _)
Snapshots_AtEnqueue(tree, ids) ==
    IF ids = <<>> THEN <<>>
    ELSE (IF Head(ids) \in Tasks(tree)
          THEN <<[tree.tasks_internal[Head(ids)] EXCEPT !.status = Running]>>
          ELSE <<>>)
         \o Snapshots_AtEnqueue(tree, Tail(ids))

\* the clones get_tasks_and_reporters takes of the tasks of a queue that are
\* still in the tree
RECURSIVE Snapshots(_, _)
Snapshots(tree, ids) ==
    IF ids = <<>> THEN <<>>
    ELSE (IF Head(ids) \in Tasks(tree)
          THEN <<tree.tasks_internal[Head(ids)]>> ELSE <<>>)
         \o Snapshots(tree, Tail(ids))

\* mutant: the queues are cloned and left in place
get_tasks_and_reporters_Clone(tree) ==
    [tree |-> tree,
     start_tasks |-> Snapshots(tree, tree.report_start),
     end_tasks |-> Snapshots(tree, tree.report_end),
     reporters |-> tree.reporters]

\* TaskTreeInternal::get_tasks_and_reporters
get_tasks_and_reporters(tree) ==
    [tree |-> [tree EXCEPT !.report_start = <<>>, !.report_end = <<>>],
     start_tasks |-> Snapshots(tree, tree.report_start),
     end_tasks |-> Snapshots(tree, tree.report_end),
     reporters |-> tree.reporters]

\* reporters::DONTPRINT_TAG
DONTPRINT_TAG == <<"dontprint">>

HasNoDontprint(task) == DONTPRINT_TAG \notin task.tags

\* mutant: report_all leaves out the tasks tagged dontprint
ReporterCalls_SkipDontprint(start_tasks, end_tasks, reporters) ==
    LET starts == SelectSeq(start_tasks, HasNoDontprint)
        ends == SelectSeq(end_tasks, HasNoDontprint)
        k == Len(starts) + Len(ends)
    IN  [i \in 1..(reporters * k) |->
            LET r == ((i - 1) \div k) + 1
                j == ((i - 1) % k) + 1
            IN  IF j <= Len(starts)
                THEN [reporter |-> r, event |-> "task_start", task |-> starts[j]]
                ELSE [reporter |-> r, event |-> "task_end",
                      task |-> ends[j - Len(starts)]]]

\* the reporter calls of one report_all, in the order its loops make them
ReporterCalls(start_tasks, end_tasks, reporters) ==
    LET k == Len(start_tasks) + Len(end_tasks)
    IN  [i \in 1..(reporters * k) |->
            LET r == ((i - 1) \div k) + 1
                j == ((i - 1) % k) + 1
            IN  IF j <= Len(start_tasks)
                THEN [reporter |-> r, event |-> "task_start", task |-> start_tasks[j]]
                ELSE [reporter |-> r, event |-> "task_end",
                      task |-> end_tasks[j - Len(start_tasks)]]]

\* -------------------------------------------------------------------- Init
IdleSpawn ==
    [pc |-> "idle", id |-> 0, flushed |-> FALSE, closure |-> None, result |-> None]

InitTree ==
    /\ tree_internal = NewTree
    /\ force_flush = FALSE
    /\ INCREMENTAL_UNIQ_ID = 0
    /\ now = 0
    /\ writer_stuck = FALSE
    /\ calls = [th \in Threads |-> <<>>]
    /\ spawns = [c \in Callers |-> IdleSpawn]
    /\ delivered = [r \in ReporterIds |-> [id \in 0..(MaxTasks - 1) |-> <<>>]]
    /\ registered_at = [r \in ReporterIds |-> 0]
    /\ handles = EmptyFn
    /\ created = <<>>
    /\ other_tree = [pending |-> None]
    /\ panicked = [pump |-> FALSE, reporters |-> {}]
    /\ held = [th \in Threads |-> "none"]
    /\ term = NewTermStatus

\* the state after TaskTree::new, no pure function being called
Init ==
    /\ InitTree
    /\ eval = NoEval

AllocatedIds == 0..(INCREMENTAL_UNIQ_ID - 1)

\* mutant: the counter is read and not advanced
UniqID_new_Load ==
    [id |-> INCREMENTAL_UNIQ_ID, counter |-> INCREMENTAL_UNIQ_ID]

\* UniqID::new: fetch_add(1, SeqCst) hands out the counter and advances it
UniqID_new ==
    [id |-> INCREMENTAL_UNIQ_ID, counter |-> INCREMENTAL_UNIQ_ID + 1]

\* Task(Arc::new(TaskData { id, task_tree, mark_done_on_drop })): one strong
\* reference
NewHandle(id, mark_done_on_drop) ==
    (id :> [strong |-> 1, mark_done_on_drop |-> mark_done_on_drop]) @@ handles
ParentChoices == {None} \cup {Some(p) : p \in AllocatedIds}
ErrorMessages == {None, Some("error")}

\* what the closure of a spawn returns: Result<T>, Ok(value) or Err(error)
Ok(value) == [ok |-> TRUE, value |-> value]
Err(error) == [ok |-> FALSE, error |-> error, context |-> <<>>]
ClosureResults == {Ok("value"), Err("error")}

\* mutant: the context is attached to an Ok as well, which makes it an Err
with_context_Always(result, desc) ==
    [ok |-> FALSE, error |-> "error", context |-> <<desc>>]

\* anyhow's Result::with_context: an Ok is passed on, an Err gets the
\* description pushed on its context chain
with_context(result, desc) ==
    IF result.ok THEN result ELSE [result EXCEPT !.context = <<desc>> \o @]

\* format!("{:?}", err): the context chain, outermost first, then the error
format_debug(err) == err.context \o <<err.error>>

\* post_spawn's error_msg: format!("{:?}", err) of an Err, None of an Ok
error_msg(result) ==
    IF result.ok THEN None ELSE Some(format_debug(result))

\* ----------------------------------------------------------------- actions
\* the wall clock advances
Tick ==
    /\ now < MaxTime
    /\ now' = now + 1
    /\ UNCHANGED <<tree_internal, force_flush, INCREMENTAL_UNIQ_ID, writer_stuck,
                   calls, spawns, delivered, registered_at,
                   hist, held>>

\* TaskTree::add_reporter
AddReporter ==
    /\ ~writer_stuck
    /\ tree_internal.reporters < MaxReporters
    /\ tree_internal' = [tree_internal EXCEPT !.reporters = @ + 1]
    /\ registered_at' = [registered_at EXCEPT
                            ![tree_internal.reporters + 1] = INCREMENTAL_UNIQ_ID]
    /\ UNCHANGED <<force_flush, INCREMENTAL_UNIQ_ID, now, writer_stuck, calls,
                   spawns, delivered,
                   hist, held>>

\* TaskTree::set_force_flush; a spawn in flight no longer counts as flushed
SetForceFlush(enabled) ==
    /\ force_flush # enabled
    /\ force_flush' = enabled
    /\ spawns' = [c \in Callers |-> [spawns[c] EXCEPT !.flushed = @ /\ enabled]]
    /\ UNCHANGED <<tree_internal, INCREMENTAL_UNIQ_ID, now, writer_stuck, calls,
                   delivered, registered_at,
                   hist, held>>

\* what TaskTree::create_task (parent None) and Task::create (parent
\* Some(id)) do to the tree, the id counter and the handles
CreateTaskData(name, parent) ==
    /\ ~writer_stuck
    /\ tree_internal' = create_task_internal(tree_internal, UniqID_new.id, name, parent)
    /\ INCREMENTAL_UNIQ_ID' = UniqID_new.counter
    /\ handles' = NewHandle(UniqID_new.id, TRUE)
    /\ created' = Append(created, [tree |-> 1, id |-> UniqID_new.id])
    /\ UNCHANGED <<force_flush, now, writer_stuck, calls, spawns, delivered,
                   registered_at, other_tree, panicked, held, term>>

\* TaskTree::create_task (parent None) and Task::create (parent Some(id))
\* with the name the caller wrote
CreateNamedTask(name, parent) ==
    /\ CreateTaskData(name, parent)
    /\ UNCHANGED eval

\* create_task / Task::create with a name that carries no tag
CreateTask(parent) == CreateNamedTask(PlainName, parent)

\* the effect of one mark_done call on the tree and on the write lock
DoMarkDone(id, error_message) ==
    LET r == mark_done(tree_internal, id, error_message, now)
    IN  /\ tree_internal' = r.tree
        /\ writer_stuck' = r.diverges

\* TaskTree::mark_done, called directly or by the drop of a Task handle
MarkDone(id, error_message) ==
    /\ ~writer_stuck
    /\ id \in Tasks(tree_internal)
    /\ DoMarkDone(id, error_message)
    /\ UNCHANGED <<force_flush, INCREMENTAL_UNIQ_ID, now, calls, spawns, delivered,
                   registered_at,
                   hist, held>>

\* TaskTree::start_trace
StartTrace(id) ==
    /\ ~writer_stuck
    /\ id \in Tasks(tree_internal)
    /\ ~tree_internal.tasks_internal[id].keep_subtree_until_finished
    /\ tree_internal' = start_trace(tree_internal, id)
    /\ UNCHANGED <<force_flush, INCREMENTAL_UNIQ_ID, now, writer_stuck, calls,
                   spawns, delivered, registered_at,
                   hist, held>>

\* one iteration of the GC loop of TaskTree::new
GcSweep ==
    /\ ~writer_stuck
    /\ WillDelete(tree_internal, now) # {}
    /\ tree_internal' = garbage_collect(tree_internal, now)
    /\ UNCHANGED <<force_flush, INCREMENTAL_UNIQ_ID, now, writer_stuck, calls,
                   spawns, delivered, registered_at,
                   hist, held>>

\* mutant: the guard stays alive
drop_Forgotten(guard) ==
    guard

\* drop(guard), or the end of the statement or block a guard lives in: the
\* thread holds the lock no more
drop(guard) ==
    "none"

\* the locked part of report_all on thread th: swap the queues out, clone the
\* tasks and the reporter list, drop the write guard
SwapQueues(th) ==
    LET got == get_tasks_and_reporters(tree_internal)
    IN  /\ tree_internal' = got.tree
        /\ calls' = [calls EXCEPT
                        ![th] = ReporterCalls(got.start_tasks, got.end_tasks, got.reporters)]
        /\ held' = [held EXCEPT ![th] = drop("write")]

\* the pump thread of TaskTree::new starts a report_all
PumpSwap ==
    /\ ~writer_stuck
    /\ ~panicked.pump
    /\ calls[PumpThread] = <<>>
    /\ tree_internal.report_start # <<>> \/ tree_internal.report_end # <<>>
    /\ SwapQueues(PumpThread)
    /\ UNCHANGED <<force_flush, INCREMENTAL_UNIQ_ID, now, writer_stuck, spawns,
                   delivered, registered_at,
                   hist>>

\* where a caller continues once its report_all has made its last call
AfterReport(s) ==
    IF s.pc = "pre_report" THEN [s EXCEPT !.pc = "closure"]
    ELSE IF s.pc = "post_report" THEN [s EXCEPT !.pc = "returned"]
    ELSE s

\* the unlocked part of report_all: thread th makes its next reporter call
Deliver(th) ==
    /\ calls[th] # <<>>
    /\ LET call == Head(calls[th])
       IN  delivered' = [delivered EXCEPT ![call.reporter][call.task.id] =
                            Append(@, [event |-> call.event,
                                       status |-> StatusTag(call.task),
                                       tags |-> call.task.tags])]
    /\ calls' = [calls EXCEPT ![th] = Tail(@)]
    /\ spawns' = IF th \in Callers /\ Len(calls[th]) = 1
                 THEN [spawns EXCEPT ![th] = AfterReport(@)]
                 ELSE spawns
    /\ UNCHANGED <<tree_internal, force_flush, INCREMENTAL_UNIQ_ID, now,
                   writer_stuck, registered_at,
                   hist, held>>

\* pre_spawn, first half: create_task_internal with mark_done_on_drop false,
\* for spawn (async) and spawn_sync alike
PreSpawn(c, parent) ==
    /\ ~writer_stuck
    /\ spawns[c].pc = "idle"
    /\ tree_internal' = create_task_internal(tree_internal, UniqID_new.id, PlainName, parent)
    /\ INCREMENTAL_UNIQ_ID' = UniqID_new.counter
    /\ handles' = NewHandle(UniqID_new.id, FALSE)
    /\ created' = Append(created, [tree |-> 1, id |-> UniqID_new.id])
    /\ spawns' = [spawns EXCEPT ![c] =
                    [pc |-> "pre_flush", id |-> UniqID_new.id,
                     flushed |-> force_flush, closure |-> None,
                     result |-> None]]
    /\ UNCHANGED <<force_flush, now, writer_stuck, calls, delivered, registered_at,
                   other_tree, panicked,
                   eval, held, term>>

\* maybe_force_flush on caller c: nothing when force_flush is off, else the
\* locked part of report_all
MaybeForceFlush(c, report_pc, next_pc) ==
    IF force_flush
    THEN /\ ~writer_stuck
         /\ SwapQueues(c)
         /\ spawns' = [spawns EXCEPT ![c].pc =
                          IF calls'[c] = <<>> THEN next_pc ELSE report_pc]
    ELSE /\ spawns' = [spawns EXCEPT ![c].pc = next_pc]
         /\ UNCHANGED <<tree_internal, calls, held>>

\* pre_spawn, second half: maybe_force_flush, then the closure starts
PreSpawnFlush(c) ==
    /\ spawns[c].pc = "pre_flush"
    /\ MaybeForceFlush(c, "pre_report", "closure")
    /\ UNCHANGED <<force_flush, INCREMENTAL_UNIQ_ID, now, writer_stuck, delivered,
                   registered_at,
                   hist>>

\* the closure returned closure_result; post_spawn attaches the context,
\* builds the message and calls mark_done
PostSpawn(c, closure_result) ==
    LET result == with_context(closure_result, "[Task]")
    IN  /\ ~writer_stuck
        /\ spawns[c].pc = "closure"
        /\ DoMarkDone(spawns[c].id, error_msg(result))
        /\ spawns' = [spawns EXCEPT
                        ![c].pc = IF writer_stuck' THEN "stuck" ELSE "post_flush",
                        ![c].closure = Some(closure_result),
                        ![c].result = Some(result)]
    /\ UNCHANGED <<force_flush, INCREMENTAL_UNIQ_ID, now, calls, delivered,
                   registered_at,
                   hist, held>>

\* post_spawn's maybe_force_flush, then spawn returns
PostSpawnFlush(c) ==
    /\ spawns[c].pc = "post_flush"
    /\ MaybeForceFlush(c, "post_report", "returned")
    /\ UNCHANGED <<force_flush, INCREMENTAL_UNIQ_ID, now, writer_stuck, delivered,
                   registered_at,
                   hist>>

\* mutant: the drop does not look at mark_done_on_drop
DropTaskData_Always(id, mark_done_on_drop) ==
    ~writer_stuck /\ DoMarkDone(id, None)

\* Drop for TaskData: mark_done only when mark_done_on_drop is set
DropTaskData(id, mark_done_on_drop) ==
    IF mark_done_on_drop
    THEN ~writer_stuck /\ DoMarkDone(id, None)
    ELSE UNCHANGED <<tree_internal, writer_stuck>>

\* one clone of the handle of id goes away: the strong count of the Arc drops
\* by one and Drop for TaskData runs when it reaches zero
DropClone(id) ==
    /\ handles' = [handles EXCEPT ![id].strong = IF @ > 0 THEN @ - 1 ELSE 0]
    /\ IF handles[id].strong = 1
       THEN DropTaskData(id, handles[id].mark_done_on_drop)
       ELSE UNCHANGED <<tree_internal, writer_stuck>>

\* #[derive(Clone)] on Task: Arc::clone
CloneHandle(id) ==
    /\ id \in DOMAIN handles
    /\ handles[id].strong > 0
    /\ handles[id].strong < MaxClones
    /\ handles' = [handles EXCEPT ![id].strong = @ + 1]
    /\ UNCHANGED <<tree_internal, force_flush, INCREMENTAL_UNIQ_ID, now, writer_stuck,
                   calls, spawns, delivered, registered_at, created, other_tree,
                   panicked,
                   eval, held, term>>

\* a Task value goes out of scope
DropHandle(id) ==
    /\ id \in DOMAIN handles
    /\ handles[id].strong > 0
    /\ DropClone(id)
    /\ UNCHANGED <<force_flush, INCREMENTAL_UNIQ_ID, now, calls, spawns, delivered,
                   registered_at, created, other_tree, panicked,
                   eval, held, term>>

\* the future of the async spawn is dropped while it awaits the closure: the
\* only thing that runs is the drop of the handle pre_spawn made, whose
\* mark_done_on_drop is false
CancelSpawn(c) ==
    /\ spawns[c].pc = "closure"
    /\ DropClone(spawns[c].id)
    /\ spawns' = [spawns EXCEPT ![c].pc = "cancelled"]
    /\ UNCHANGED <<force_flush, INCREMENTAL_UNIQ_ID, now, calls, delivered,
                   registered_at, created, other_tree, panicked,
                   eval, held, term>>

\* ---------------------------------------------------------- specifications
\* The tree: creation, completion, tracing, the GC and the draining of the
\* queues, with no reporter registered.
Next ==
    \/ Tick
    \/ \E parent \in ParentChoices :
            INCREMENTAL_UNIQ_ID < MaxTasks /\ CreateTask(parent)
    \/ \E id \in AllocatedIds, m \in ErrorMessages :
            Len(tree_internal.report_end) < MaxQueue /\ MarkDone(id, m)
    \/ \E id \in AllocatedIds : StartTrace(id)
    \/ GcSweep
    \/ PumpSwap

Spec == Init /\ [][Next]_vars

\* the wall clock advances, up to limit
TickTo(limit) ==
    /\ now < limit
    /\ now' = now + 1
    /\ UNCHANGED <<tree_internal, force_flush, INCREMENTAL_UNIQ_ID, writer_stuck,
                   calls, spawns, delivered, registered_at, hist, held>>

\* The tree with the GC loop of TaskTree::new scheduled fairly: tasks are
\* created and finished, the clock runs long enough for two sweeps to find
\* work, and the sweep runs again and again as long as it can take the write
\* lock.
LiveNext ==
    \/ TickTo(MaxLiveTime)
    \/ \E parent \in ParentChoices :
            INCREMENTAL_UNIQ_ID < MaxTasks /\ CreateTask(parent)
    \/ \E id \in Tasks(tree_internal) :
            /\ ~IsFinished(tree_internal.tasks_internal[id])
            /\ MarkDone(id, None)
    \/ GcSweep

LiveSpec == Init /\ [][LiveNext]_vars /\ WF_vars(GcSweep)

\* the tasks made by pre_spawn: their handles have mark_done_on_drop false
SpawnedIds == {spawns[c].id : c \in {k \in Callers : spawns[k].pc # "idle"}}

\* The event pump: reporters, the pump thread, force flush and the spawn
\* wrappers, over a tree of at most MaxPumpTasks tasks. Each caller thread runs
\* one spawn; force flush is switched on as in main.rs; a direct mark_done is
\* the one the drop of a create_task / Task::create handle makes
\* (mark_done(id, None), once).
PumpNext ==
    \/ Tick
    \/ AddReporter
    \/ \E enabled \in {TRUE} : SetForceFlush(enabled)
    \/ \E parent \in ParentChoices :
            INCREMENTAL_UNIQ_ID < MaxPumpTasks /\ CreateTask(parent)
    \/ \E id \in Tasks(tree_internal) \ SpawnedIds :
            /\ ~IsFinished(tree_internal.tasks_internal[id])
            /\ MarkDone(id, None)
    \/ GcSweep
    \/ PumpSwap
    \/ \E th \in Threads : Deliver(th)
    \/ \E c \in Callers, parent \in ParentChoices :
            INCREMENTAL_UNIQ_ID < MaxPumpTasks /\ PreSpawn(c, parent)
    \/ \E c \in Callers : PreSpawnFlush(c)
    \/ \E c \in Callers, result \in ClosureResults : PostSpawn(c, result)
    \/ \E c \in Callers : PostSpawnFlush(c)
    \/ \E c \in Callers : CancelSpawn(c)

PumpSpec == Init /\ [][PumpNext]_vars

\* the reporter call thread th is about to make panics. report_all has no
\* catch_unwind: the panic unwinds through its loops, so the calls it had
\* left are never made; on the pump thread it ends the thread's loop, on a
\* caller it leaves maybe_force_flush and spawn / spawn_sync by unwinding.
ReporterPanics(th) ==
    /\ calls[th] # <<>>
    /\ calls' = [calls EXCEPT ![th] = <<>>]
    /\ panicked' = [pump |-> panicked.pump \/ th = PumpThread,
                    reporters |-> panicked.reporters \cup {Head(calls[th]).reporter}]
    /\ spawns' = IF th \in Callers
                 THEN [spawns EXCEPT ![th].pc = "panicked"]
                 ELSE spawns
    /\ UNCHANGED <<tree_internal, force_flush, INCREMENTAL_UNIQ_ID, now,
                   writer_stuck, delivered, registered_at, handles, created,
                   other_tree, eval, held, term>>

\* The event pump with reporters that can panic: the pump specification
\* without the clock and the collector.
PanicNext ==
    \/ AddReporter
    \/ \E enabled \in {TRUE} : SetForceFlush(enabled)
    \/ \E parent \in ParentChoices :
            INCREMENTAL_UNIQ_ID < MaxPumpTasks /\ CreateTask(parent)
    \/ \E id \in Tasks(tree_internal) \ SpawnedIds :
            /\ ~IsFinished(tree_internal.tasks_internal[id])
            /\ MarkDone(id, None)
    \/ PumpSwap
    \/ \E th \in Threads : Deliver(th)
    \/ \E th \in Threads : ReporterPanics(th)
    \/ \E c \in Callers, parent \in ParentChoices :
            INCREMENTAL_UNIQ_ID < MaxPumpTasks /\ PreSpawn(c, parent)
    \/ \E c \in Callers : PreSpawnFlush(c)
    \/ \E c \in Callers, result \in ClosureResults : PostSpawn(c, result)
    \/ \E c \in Callers : PostSpawnFlush(c)

PanicSpec == Init /\ [][PanicNext]_vars

\* a Task handle of id is alive: Task::create and Task::spawn need one
Alive(id) == id \in DOMAIN handles /\ handles[id].strong > 0
LiveParents == {None} \cup {Some(p) : p \in {q \in AllocatedIds : Alive(q)}}

\* The handles: tasks are made by create_task, Task::create and the spawn
\* wrappers, their handles are cloned and dropped, and nothing calls
\* mark_done but the drop of a handle and post_spawn.
HandleNext ==
    \/ Tick
    \/ \E parent \in LiveParents :
            INCREMENTAL_UNIQ_ID < MaxTasks /\ CreateTask(parent)
    \/ \E id \in AllocatedIds : CloneHandle(id)
    \/ \E id \in AllocatedIds : DropHandle(id)
    \/ GcSweep
    \/ \E c \in Callers, parent \in LiveParents :
            INCREMENTAL_UNIQ_ID < MaxTasks /\ PreSpawn(c, parent)
    \/ \E c \in Callers : PreSpawnFlush(c)
    \/ \E c \in Callers, result \in ClosureResults : PostSpawn(c, result)
    \/ \E c \in Callers : PostSpawnFlush(c)
    \/ \E c \in Callers : CancelSpawn(c)

HandleSpec == Init /\ [][HandleNext]_vars

\* keys as callers write them ("k", "j", "k#trace") and the values
DataKeys == {<<"k">>, <<"j">>, <<"k", "#", "trace">>}
DataValues == 1..MaxValue
\* ids a caller can pass: the allocated ones and one that was never handed out
AnyIds == 0..MaxDataTasks

\* TaskTree::add_data under the write lock
AddData(id, key, value) ==
    /\ ~writer_stuck
    /\ tree_internal' = add_data(tree_internal, id, key, value)
    /\ UNCHANGED <<force_flush, INCREMENTAL_UNIQ_ID, now, writer_stuck, calls,
                   spawns, delivered, registered_at, hist, held>>

\* TaskTree::add_data_transitive_for_task under the write lock
AddDataTransitiveForTask(id, key, value) ==
    /\ ~writer_stuck
    /\ tree_internal' = add_data_transitive_for_task(tree_internal, id, key, value)
    /\ UNCHANGED <<force_flush, INCREMENTAL_UNIQ_ID, now, writer_stuck, calls,
                   spawns, delivered, registered_at, hist, held>>

\* TaskTree::add_data_transitive under the write lock
AddDataTransitive(key, value) ==
    /\ ~writer_stuck
    /\ tree_internal' = add_data_transitive(tree_internal, key, value)
    /\ UNCHANGED <<force_flush, INCREMENTAL_UNIQ_ID, now, writer_stuck, calls,
                   spawns, delivered, registered_at, hist, held>>

\* TaskTree::task_progress under the write lock
TaskProgress(id, done, total) ==
    /\ ~writer_stuck
    /\ tree_internal' = task_progress(tree_internal, id, done, total)
    /\ UNCHANGED <<force_flush, INCREMENTAL_UNIQ_ID, now, writer_stuck, calls,
                   spawns, delivered, registered_at, hist, held>>

\* The data: tasks are created, given data, progress and transitive data,
\* finished by the drop of their handle and collected.
DataNext ==
    \/ Tick
    \/ \E parent \in ParentChoices :
            INCREMENTAL_UNIQ_ID < MaxDataTasks /\ CreateTask(parent)
    \/ \E id \in AnyIds : AddData(id, <<"j">>, 1)
    \/ \E id \in AnyIds, key \in DataKeys, value \in DataValues :
            AddDataTransitiveForTask(id, key, value)
    \/ \E key \in DataKeys, value \in DataValues : AddDataTransitive(key, value)
    \/ \E id \in AnyIds : TaskProgress(id, 1, 2)
    \/ \E id \in Tasks(tree_internal) :
            /\ ~IsFinished(tree_internal.tasks_internal[id])
            /\ MarkDone(id, None)
    \/ GcSweep

DataSpec == Init /\ [][DataNext]_vars

\* create_task_internal on a second TaskTree, first half: a thread takes that
\* tree's write lock and calls UniqID::new
OtherTreeFetch ==
    /\ other_tree.pending = None
    /\ other_tree' = [other_tree EXCEPT !.pending = Some(UniqID_new.id)]
    /\ INCREMENTAL_UNIQ_ID' = UniqID_new.counter
    /\ UNCHANGED <<tree_internal, force_flush, now, writer_stuck, calls, spawns,
                   delivered, registered_at, handles, created, panicked,
                   eval, held, term>>

\* second half: the task is inserted in that tree and the lock released
OtherTreeInsert ==
    /\ other_tree.pending # None
    /\ created' = Append(created, [tree |-> 2, id |-> other_tree.pending[1]])
    /\ other_tree' = [other_tree EXCEPT !.pending = None]
    /\ UNCHANGED <<tree_internal, force_flush, INCREMENTAL_UNIQ_ID, now,
                   writer_stuck, calls, spawns, delivered, registered_at, handles,
                   panicked,
                   eval, held, term>>

\* The ids: two trees of one process hand out ids from the one counter while
\* tasks of the first are finished and collected.
IdNext ==
    \/ Tick
    \/ \E parent \in ParentChoices :
            INCREMENTAL_UNIQ_ID < MaxTasks /\ CreateTask(parent)
    \/ INCREMENTAL_UNIQ_ID < MaxTasks /\ OtherTreeFetch
    \/ OtherTreeInsert
    \/ \E id \in Tasks(tree_internal) :
            /\ ~IsFinished(tree_internal.tasks_internal[id])
            /\ MarkDone(id, None)
    \/ GcSweep

IdSpec == Init /\ [][IdNext]_vars

\* ------------------------------------------------------- text reporters
\* reporters::Level: L0 < L1 < L2 < L3, the default is L1
Levels == 0..3
DefaultLevel == 1

\* the level a tag stands for in parse_level: "l0" .. "l3", other tags none
LevelOfTag(tag) ==
    IF tag = <<"l0">> THEN Some(0)
    ELSE IF tag = <<"l1">> THEN Some(1)
    ELSE IF tag = <<"l2">> THEN Some(2)
    ELSE IF tag = <<"l3">> THEN Some(3)
    ELSE None

\* mutant: the highest level among the tags
parse_level_Max(tags) ==
    LET all_level_tags == {LevelOfTag(tag)[1] : tag \in {t \in tags : LevelOfTag(t) # None}}
    IN  IF all_level_tags = {}
        THEN DefaultLevel
        ELSE CHOOSE l \in all_level_tags : \A m \in all_level_tags : l >= m

\* reporters::utils::parse_level: the lowest level among the tags, else L1
parse_level(tags) ==
    LET all_level_tags == {LevelOfTag(tag)[1] : tag \in {t \in tags : LevelOfTag(t) # None}}
    IN  IF all_level_tags = {}
        THEN DefaultLevel
        ELSE CHOOSE l \in all_level_tags : \A m \in all_level_tags : l <= m

\* StringReporter::report: TRUE when the call appends a line to the output
StringReporter_report(tags) ==
    DONTPRINT_TAG \notin tags

\* StdioReporter::report: TRUE when the call prints a line
StdioReporter_report(tags, max_log_level) ==
    parse_level(tags) <= max_log_level /\ DONTPRINT_TAG \notin tags

\* the lines a StringReporter registered as reporter r holds for task id
StringReporter_output(r, id) ==
    SelectSeq(delivered[r][id], LAMBDA call : StringReporter_report(call.tags))

\* the lines a StdioReporter registered as reporter r has printed for task id:
\* task_start reports only when log_task_start is set, task_end always
StdioReporter_output(r, id, max_log_level, log_task_start) ==
    SelectSeq(delivered[r][id],
              LAMBDA call : /\ call.event = "task_end" \/ log_task_start
                            /\ StdioReporter_report(call.tags, max_log_level))

\* Reporter for StdioReporter: TRUE when the call of task_start / task_end
\* for a task with these tags prints
StdioReporter_event(event, tags, max_log_level, log_task_start) ==
    IF event = "task_start"
    THEN log_task_start /\ StdioReporter_report(tags, max_log_level)
    ELSE StdioReporter_report(tags, max_log_level)

\* names as callers write them: plain, "task #dontprint", "task #l3"
TaskNames == {PlainName, <<"task", " ", "#", "dontprint">>, <<"task", " ", "#", "l3">>}

\* Tagged tasks and the pump: tasks are created under names with and without
\* tags, finished and collected while the pump thread reports them.
TagNext ==
    \/ Tick
    \/ AddReporter
    \/ \E name \in TaskNames, parent \in ParentChoices :
            INCREMENTAL_UNIQ_ID < MaxTagTasks /\ CreateNamedTask(name, parent)
    \/ \E id \in Tasks(tree_internal) :
            /\ ~IsFinished(tree_internal.tasks_internal[id])
            /\ MarkDone(id, None)
    \/ GcSweep
    \/ PumpSwap
    \/ Deliver(PumpThread)

TagSpec == Init /\ [][TagNext]_vars

\* ------------------------------------------------------- terminal status
\* term_status::NOSTATUS_TAG
NOSTATUS_TAG == <<"nostatus">>

\* TermStatusInternal::should_print
should_print(task, max_log_level) ==
    NOSTATUS_TAG \notin task.tags /\ parse_level(task.tags) <= max_log_level

\* the indent glyphs of task_row: "│ ", "  ", "├ " and "╰ "
GlyphVertical == "vertical"
GlyphBlank == "blank"
GlyphContinuation == "continuation"
GlyphLast == "last"

\* TermStatusInternal::task_row: the indent (none for an empty depth, else a
\* vertical line or a blank per flag and a final glyph for the popped last
\* flag), the status and the name
task_row(task, depth) ==
    [id |-> task.id,
     indent |->
        IF depth = <<>> THEN <<>>
        ELSE [i \in 1..(Len(depth) - 1) |->
                IF depth[i] THEN GlyphVertical ELSE GlyphBlank]
             \o <<IF depth[Len(depth)] THEN GlyphContinuation ELSE GlyphLast>>,
     status |-> StatusTag(task),
     name |-> task.name]

\* a BTreeSet iterated: its ids in ascending order
RECURSIVE Ascending(_)
Ascending(ids) ==
    IF ids = {} THEN <<>>
    ELSE LET first == CHOOSE i \in ids : \A j \in ids : i <= j
         IN  <<first>> \o Ascending(ids \ {first})

Reverse(seq) == [i \in 1..Len(seq) |-> seq[Len(seq) + 1 - i]]

\* mutant: the indent is pushed for the children of a task that is not printed too
new_depth_Always(depth, dontprint, has_vertical_line) ==
    Append(depth, has_vertical_line)

\* the depth of a child in make_status_rows: the indent is pushed only when
\* the task itself is printed
new_depth(depth, dontprint, has_vertical_line) ==
    IF dontprint THEN depth ELSE Append(depth, has_vertical_line)

\* the loop of make_status_rows over its stack of (id, depth); the task at
\* the top missing makes the whole call return Err
RECURSIVE StatusRows(_, _, _)
StatusRows(tree, max_log_level, stack) ==
    IF stack = <<>> THEN [ok |-> TRUE, rows |-> <<>>]
    ELSE
        LET id == stack[Len(stack)].id
            depth == stack[Len(stack)].depth
            popped == SubSeq(stack, 1, Len(stack) - 1)
        IN  IF id \notin Tasks(tree) THEN [ok |-> FALSE, rows |-> <<>>]
            ELSE
                LET task == tree.tasks_internal[id]
                    dontprint == ~should_print(task, max_log_level)
                    children == Ascending(ChildrenOf(tree, id))
                    visible == {c \in ChildrenOf(tree, id) :
                                    /\ c \in Tasks(tree)
                                    /\ should_print(tree.tasks_internal[c], max_log_level)}
                    last_visible_child ==
                        IF visible = {} THEN None
                        ELSE Some(CHOOSE c \in visible : \A d \in visible : d <= c)
                    append_to_stack ==
                        [i \in 1..Len(children) |->
                            [id |-> children[i],
                             depth |-> new_depth(depth, dontprint,
                                                 Some(children[i]) # last_visible_child)]]
                    later == StatusRows(tree, max_log_level,
                                        popped \o Reverse(append_to_stack))
                IN  IF ~later.ok THEN later
                    ELSE [ok |-> TRUE,
                          rows |-> (IF dontprint THEN <<>> ELSE <<task_row(task, depth)>>)
                                   \o later.rows]

\* TermStatusInternal::make_status_rows
make_status_rows(tree, max_log_level) ==
    LET roots == Ascending({id \in tree.root_tasks : id \notin DOMAIN tree.child_to_parent})
    IN  StatusRows(tree, max_log_level,
                   [i \in 1..Len(roots) |-> [id |-> roots[i], depth |-> <<>>]])

\* names as callers write them: plain, "task #nostatus", "task #l2"
StatusNames == {PlainName, <<"task", " ", "#", "nostatus">>, <<"task", " ", "#", "l2">>}

\* The tree behind the terminal status: tasks are created under names with
\* and without tags, finished and collected; the frame is built from any of
\* its states.
StatusNext ==
    \/ Tick
    \/ \E name \in StatusNames, parent \in ParentChoices :
            INCREMENTAL_UNIQ_ID < MaxStatusTasks /\ CreateNamedTask(name, parent)
    \/ \E id \in Tasks(tree_internal) :
            /\ ~IsFinished(tree_internal.tasks_internal[id])
            /\ MarkDone(id, None)
    \/ GcSweep

StatusSpec == Init /\ [][StatusNext]_vars

\* ----------------------------------------------------------- render loop
\* All tree operations leave the TermStatus alone and the render loop leaves
\* the tree alone.
tree_vars == <<tree_internal, force_flush, INCREMENTAL_UNIQ_ID, now, writer_stuck,
               calls, spawns, delivered, registered_at, handles, created,
               other_tree, panicked, eval, held>>

\* the render loop threads that have not left their loop
ActiveLoops == {l \in DOMAIN term.loops : term.loops[l].pc # "exited"}

\* TermStatus::show: under the write lock, nothing when already enabled;
\* else enabled is set and a thread running the render loop is spawned
Show ==
    /\ term.lock = None
    /\ term' = IF term.enabled THEN term
               ELSE [term EXCEPT !.enabled = TRUE,
                                 !.loops = Append(@, [pc |-> "sleep", row |-> 0])]
    /\ UNCHANGED tree_vars

\* TermStatus::hide: enabled is cleared under the write lock
Hide ==
    /\ term.lock = None
    /\ term' = [term EXCEPT !.enabled = FALSE]
    /\ UNCHANGED tree_vars

\* the loop after its 1 ms sleep: stdout.lock() and stderr.lock()
LockStdio(l) ==
    /\ term.loops[l].pc = "sleep"
    /\ term.stdio = None
    /\ term' = [term EXCEPT !.stdio = Some(l), !.loops[l].pc = "lock_status"]
    /\ UNCHANGED tree_vars

\* t.0.write() and the first test of enabled: on to print, or break, which
\* drops the guards and ends the thread
LockStatus(l) ==
    /\ term.loops[l].pc = "lock_status"
    /\ term.lock = None
    /\ term' = IF term.enabled
               THEN [term EXCEPT !.lock = Some(l), !.loops[l].pc = "print"]
               ELSE [term EXCEPT !.stdio = None, !.loops[l].pc = "exited"]
    /\ UNCHANGED tree_vars

\* the rows the cursor moves down when print writes "\n", the rows joined by
\* "\n", and "\n"
LinesPrinted(height) ==
    1 + (IF height = 0 THEN 0 ELSE height - 1) + 1

\* TermStatusInternal::print: make_status_rows under the tree's read lock;
\* an Err leaves everything as it was, as do two empty frames in a row; else
\* current_height is set and the frame is written
print(status, tree, cursor) ==
    LET frame == make_status_rows(tree, DefaultLevel)
        height == Len(frame.rows)
    IN  IF ~frame.ok \/ (height = 0 /\ status.current_height = 0)
        THEN [current_height |-> status.current_height, cursor |-> cursor]
        ELSE [current_height |-> height, cursor |-> cursor + LinesPrinted(height)]

\* TermStatusInternal::clear: current_height + 1 times clear the line and
\* move up, nothing when current_height is 0
clear(status, cursor) ==
    IF status.current_height # 0
    THEN cursor - (status.current_height + 1)
    ELSE cursor

\* internal.print(&mut stderr_lock): the loop takes the tree's read lock,
\* which it gets once no writer holds the tree, and paints the frame
PrintFrame(l) ==
    /\ term.loops[l].pc = "print"
    /\ ~writer_stuck
    /\ \A th \in Threads : held[th] # "write"
    /\ LET painted == print(term, tree_internal, term.cursor)
       IN  term' = [term EXCEPT !.current_height = painted.current_height,
                                !.cursor = painted.cursor,
                                !.loops[l] = [pc |-> "painted", row |-> term.cursor]]
    /\ UNCHANGED tree_vars

\* after the 50 ms sleep: the second test of enabled, clear, and the end of
\* the iteration, which drops the stdio locks and the write guard
ClearFrame(l) ==
    /\ term.loops[l].pc = "painted"
    /\ term' = IF term.enabled
               THEN [term EXCEPT !.cursor = clear(term, @),
                                 !.stdio = None, !.lock = None,
                                 !.loops[l].pc = "sleep"]
               ELSE [term EXCEPT !.stdio = None, !.lock = None,
                                 !.loops[l].pc = "exited"]
    /\ UNCHANGED tree_vars

\* The terminal status over a live tree: show and hide are called, the render
\* loops run, tasks are created, finished and collected.
TermNext ==
    \/ Len(term.loops) < MaxLoops /\ Show
    \/ Hide
    \/ \E l \in DOMAIN term.loops : LockStdio(l)
    \/ \E l \in DOMAIN term.loops : LockStatus(l)
    \/ \E l \in DOMAIN term.loops : PrintFrame(l)
    \/ \E l \in DOMAIN term.loops : ClearFrame(l)
    \/ Tick
    \/ \E parent \in ParentChoices :
            INCREMENTAL_UNIQ_ID < MaxTermTasks /\ CreateTask(parent)
    \/ \E id \in Tasks(tree_internal) :
            /\ ~IsFinished(tree_internal.tasks_internal[id])
            /\ MarkDone(id, None)
    \/ GcSweep

TermSpec == Init /\ [][TermNext]_vars

\* ------------------------------------------------------- pure functions
\* level::Level: Info < Debug < Trace
Info == 1
Debug == 2
Trace == 3
LogLevels == {Info, Debug, Trace}

\* the level a tag stands for in extract_log_level_from_tags
LogLevelOfTag(tag) ==
    IF tag = <<"info">> THEN Some(Info)
    ELSE IF tag = <<"trace">> THEN Some(Trace)
    ELSE IF tag = <<"debug">> THEN Some(Debug)
    ELSE None

\* mutant: of several level tags the highest is taken
extract_log_level_from_tags_Max(tags) ==
    LET found == {LogLevelOfTag(tag)[1] : tag \in {t \in tags : LogLevelOfTag(t) # None}}
    IN  IF found = {} THEN None
        ELSE Some(CHOOSE l \in found : \A m \in found : m <= l)

\* utils::extract_log_level_from_tags: of several level tags the lowest
extract_log_level_from_tags(tags) ==
    LET found == {LogLevelOfTag(tag)[1] : tag \in {t \in tags : LogLevelOfTag(t) # None}}
    IN  IF found = {} THEN None
        ELSE Some(CHOOSE l \in found : \A m \in found : l <= m)

\* Data::filter_for_level: the entries whose level is above `level` are removed
filter_for_level(data, level) ==
    LET to_remove ==
            {key \in DOMAIN data :
                LET entry_log_level == extract_log_level_from_tags(data[key].tags)
                IN  entry_log_level # None /\ entry_log_level[1] > level}
    IN  Restrict(data, DOMAIN data \ to_remove)

\* term_status::make_progress
PROGRESS_BAR_LEN == 30

\* mutant: the filled cells are computed from done / total in one division
make_progress_OneDivision(done, total) ==
    LET done_blocks_len == (PROGRESS_BAR_LEN * done) \div total
    IN  [i \in 1..PROGRESS_BAR_LEN |-> IF i <= done_blocks_len THEN "done" ELSE "todo"]

\* make_progress for progress Some((done, total)): the cells of the bar, the
\* done blocks first. Both divisions are integer divisions.
make_progress(done, total) ==
    LET pct_done == (done * 100) \div total
        blocks == (PROGRESS_BAR_LEN * pct_done) \div 100
        done_blocks_len == IF blocks < PROGRESS_BAR_LEN THEN blocks ELSE PROGRESS_BAR_LEN
        todo_blocks_len == PROGRESS_BAR_LEN - done_blocks_len
    IN  [i \in 1..done_blocks_len |-> "done"] \o [i \in 1..todo_blocks_len |-> "todo"]

\* the strings of at most n symbols of an alphabet
Strings(alphabet, n) == UNION {[1..k -> alphabet] : k \in 0..n}

\* names and tags without '#', with and without whitespace around them
NameStrings == Strings({"a", " "}, MaxNameLen)
TagStrings == Strings({"t", " "}, MaxTagLen) \ {<<>>}
TagLists ==
    {tags \in Strings(TagStrings, MaxTags) :
        \A i, j \in 1..Len(tags) : i # j => tags[i] # tags[j]}

\* the name followed by " #" + tag for every tag
RECURSIVE WithTags(_, _)
WithTags(name, tags) ==
    IF tags = <<>> THEN name
    ELSE WithTags(name \o <<" ", "#">> \o Head(tags), Tail(tags))

\* the data maps handed to filter_for_level: entries with any set of tags
LevelTags == {<<"info">>, <<"debug">>, <<"trace">>, <<"other">>}
FilterKeys == {<<"k">>, <<"j">>}
FilterData ==
    UNION {[keys -> [value : {1}, tags : SUBSET LevelTags]] : keys \in SUBSET FilterKeys}

\* the tags of the tasks handed to a StdioReporter: any set of these
ReportTags == {<<"l0">>, <<"l1">>, <<"l2">>, <<"l3">>, DONTPRINT_TAG, <<"other">>}

\* the calls of the pure functions, before they are made
EvalInputs ==
    [fn : {"extract_tags"}, name : NameStrings, tags : TagLists, result : {None}]
    \cup [fn : {"filter_for_level"}, data : FilterData, level : LogLevels, result : {None}]
    \cup {[fn |-> "make_progress", done |-> done, total |-> total, result |-> None] :
            done \in 0..MaxTotal, total \in 1..MaxTotal}
    \cup [fn : {"StdioReporter"}, event : {"task_start", "task_end"},
          tags : SUBSET ReportTags, max_log_level : Levels,
          log_task_start : BOOLEAN, result : {None}]

\* any of the calls is about to be made on a fresh tree
EvalInit ==
    /\ InitTree
    /\ eval \in {e \in EvalInputs : e.fn = "make_progress" => e.done <= e.total}

\* extract_tags(name + " #" + tag ...) returns
ExtractTags ==
    /\ eval.fn = "extract_tags" /\ eval.result = None
    /\ eval' = [eval EXCEPT !.result = Some(extract_tags(WithTags(eval.name, eval.tags)))]
    /\ UNCHANGED <<tree_internal, force_flush, INCREMENTAL_UNIQ_ID, now, writer_stuck,
                   calls, spawns, delivered, registered_at, handles, created,
                   other_tree, panicked, held, term>>

\* data.filter_for_level(level) returns
FilterForLevel ==
    /\ eval.fn = "filter_for_level" /\ eval.result = None
    /\ eval' = [eval EXCEPT !.result = Some(filter_for_level(eval.data, eval.level))]
    /\ UNCHANGED <<tree_internal, force_flush, INCREMENTAL_UNIQ_ID, now, writer_stuck,
                   calls, spawns, delivered, registered_at, handles, created,
                   other_tree, panicked, held, term>>

\* make_progress of a task with progress Some((done, total)) returns
MakeProgress ==
    /\ eval.fn = "make_progress" /\ eval.result = None
    /\ eval' = [eval EXCEPT !.result = Some(make_progress(eval.done, eval.total))]
    /\ UNCHANGED <<tree_internal, force_flush, INCREMENTAL_UNIQ_ID, now, writer_stuck,
                   calls, spawns, delivered, registered_at, handles, created,
                   other_tree, panicked, held, term>>

\* task_start / task_end of a StdioReporter returns
StdioReport ==
    /\ eval.fn = "StdioReporter" /\ eval.result = None
    /\ eval' = [eval EXCEPT !.result =
                    Some(StdioReporter_event(eval.event, eval.tags, eval.max_log_level,
                                             eval.log_task_start))]
    /\ UNCHANGED <<tree_internal, force_flush, INCREMENTAL_UNIQ_ID, now, writer_stuck,
                   calls, spawns, delivered, registered_at, handles, created,
                   other_tree, panicked, held, term>>

EvalNext ==
    \/ ExtractTags
    \/ FilterForLevel
    \/ MakeProgress
    \/ StdioReport

EvalSpec == EvalInit /\ [][EvalNext]_vars

\* ------------------------------------------------------------------ claims
\* number of entries of seq equal to x
RECURSIVE Count(_, _)
Count(seq, x) ==
    IF seq = <<>> THEN 0
    ELSE (IF Head(seq) = x THEN 1 ELSE 0) + Count(Tail(seq), x)

\* the events of one kind reporter r received for task id
EventsOf(r, id, event) ==
    {i \in DOMAIN delivered[r][id] : delivered[r][id][i].event = event}

\* reporters that were registered before task id was created
ReportersBefore(id) ==
    {r \in 1..tree_internal.reporters : registered_at[r] <= id}

\* mark_done has run for id: it is Finished, or was and has been collected
HasBeenMarkedDone(id) ==
    id \notin Tasks(tree_internal) \/ IsFinished(tree_internal.tasks_internal[id])

\* nothing is queued and no report_all is between its swap and its last call
Quiescent ==
    /\ tree_internal.report_start = <<>>
    /\ tree_internal.report_end = <<>>
    /\ \A th \in Threads : calls[th] = <<>>

\* the ancestors of id: the chain of child_to_parent entries
RECURSIVE Ancestors(_, _)
Ancestors(tree, id) ==
    IF id \in DOMAIN tree.child_to_parent
    THEN {tree.child_to_parent[id]} \cup Ancestors(tree, tree.child_to_parent[id])
    ELSE {}

\* task a holds its subtree: keep_subtree_until_finished and still Running
Holds(tree, a) ==
    /\ a \in Tasks(tree)
    /\ tree.tasks_internal[a].keep_subtree_until_finished
    /\ ~IsFinished(tree.tasks_internal[a])

\* C1: every created task has its start event delivered exactly once and, once
\* marked done, its end event delivered exactly once, to every reporter that
\* was registered when it was created: never twice, and once nothing is left
\* to deliver, exactly once. (PumpSpec)
C1_ExactlyOnceDelivery ==
    \A id \in AllocatedIds : \A r \in ReportersBefore(id) :
        /\ Cardinality(EventsOf(r, id, "task_start")) <= 1
        /\ Cardinality(EventsOf(r, id, "task_end")) <= 1
        /\ Quiescent =>
            /\ Cardinality(EventsOf(r, id, "task_start")) = 1
            /\ HasBeenMarkedDone(id) => Cardinality(EventsOf(r, id, "task_end")) = 1

\* C2: a reporter's task_end call for a task is preceded by its task_start
\* call for that task. (PumpSpec)
C2_StartBeforeEnd ==
    \A id \in AllocatedIds : \A r \in ReportersBefore(id) :
        \A i \in EventsOf(r, id, "task_end") :
            \E j \in EventsOf(r, id, "task_start") : j < i

\* C3: with force_flush on for the whole call, when spawn / spawn_sync has
\* returned every reporter has received task_start and task_end for the
\* spawned task. (PumpSpec)
C3_FlushedWhenSpawnReturns ==
    \A c \in Callers :
        (spawns[c].pc = "returned" /\ spawns[c].flushed) =>
            \A r \in ReportersBefore(spawns[c].id) :
                /\ EventsOf(r, spawns[c].id, "task_start") # {}
                /\ EventsOf(r, spawns[c].id, "task_end") # {}

\* C4: no step changes the status (result, finished_at) of a task that is
\* already Finished, nor adds its id to report_end again. (Spec)
C4_FirstMarkDoneWins ==
    [][\A id \in Tasks(tree_internal) :
          IsFinished(tree_internal.tasks_internal[id]) =>
            /\ id \in Tasks(tree_internal') =>
                  tree_internal'.tasks_internal[id].status
                      = tree_internal.tasks_internal[id].status
            /\ Count(tree_internal'.report_end, id)
                  <= Count(tree_internal.report_end, id)]_vars

\* C5: c is in parent_to_children[p] exactly when child_to_parent[c] = p. (Spec)
C5_IndexesAgree ==
    \A p \in AllocatedIds, c \in AllocatedIds :
        (c \in ChildrenOf(tree_internal, p))
            <=> (c \in DOMAIN tree_internal.child_to_parent
                    /\ tree_internal.child_to_parent[c] = p)

\* C6: every task of tasks_internal is a root or has a child_to_parent entry,
\* and never both. (Spec)
C6_RootXorChild ==
    \A id \in Tasks(tree_internal) :
        (id \in tree_internal.root_tasks) # (id \in DOMAIN tree_internal.child_to_parent)

\* C6 witness: a root and a child are in the tree after a sweep has removed a task
C6_Witness ==
    /\ Cardinality(Tasks(tree_internal)) < INCREMENTAL_UNIQ_ID
    /\ \E r \in Tasks(tree_internal) : r \in tree_internal.root_tasks
    /\ \E c \in Tasks(tree_internal) : c \in DOMAIN tree_internal.child_to_parent

\* C7: every id in report_start and report_end is the id of a task in
\* tasks_internal. (Spec)
C7_QueuedIdsArePresent ==
    /\ \A i \in DOMAIN tree_internal.report_start :
            tree_internal.report_start[i] \in Tasks(tree_internal)
    /\ \A i \in DOMAIN tree_internal.report_end :
            tree_internal.report_end[i] \in Tasks(tree_internal)

\* C8: a task that leaves tasks_internal is Finished at that moment, and so is
\* every task of its subtree. (Spec)
C8_RemovedSubtreeFinished ==
    [][\A id \in Tasks(tree_internal) \ Tasks(tree_internal') :
          \A d \in Subtree(tree_internal, id) \cap Tasks(tree_internal) :
              IsFinished(tree_internal.tasks_internal[d])]_vars

\* C9: a task does not leave tasks_internal while one of its ancestors has
\* keep_subtree_until_finished set and is still Running. (Spec)
C9_HeldSubtreeNotCollected ==
    [][\A id \in Tasks(tree_internal) \ Tasks(tree_internal') :
          \A a \in Ancestors(tree_internal, id) : ~Holds(tree_internal, a)]_vars

\* C10: once the future of a spawn has been dropped during the closure, the
\* task pre_spawn created is no longer Running. (PumpSpec)
C10_CancelledSpawnIsMarkedDone ==
    \A c \in Callers :
        spawns[c].pc = "cancelled" => HasBeenMarkedDone(spawns[c].id)

\* C11: the handle of a task made by create_task / Task::create
\* (mark_done_on_drop set): while a clone is alive the task is Running and no
\* end event was enqueued for it; the drop of the last clone runs
\* mark_done(id, None); once no clone is left nothing finishes it again. The
\* handle made by pre_spawn: a drop of one of its clones leaves the tree as it
\* is. (HandleSpec)
C11_MarkDoneOnLastDrop ==
    /\ [](\A id \in DOMAIN handles :
            (handles[id].mark_done_on_drop /\ handles[id].strong > 0) =>
                /\ id \in Tasks(tree_internal)
                /\ ~IsFinished(tree_internal.tasks_internal[id])
                /\ Count(tree_internal.report_end, id) = 0)
    /\ [][\A id \in DOMAIN handles :
            /\ (handles[id].mark_done_on_drop /\ handles[id].strong = 1
                    /\ handles'[id].strong = 0) =>
                  \/ writer_stuck'
                  \/ /\ tree_internal'.tasks_internal[id].status = Finished(Success, now)
                     /\ Count(tree_internal'.report_end, id) = 1
            /\ (handles[id].mark_done_on_drop /\ handles[id].strong = 0) =>
                  /\ id \in Tasks(tree_internal') =>
                        tree_internal'.tasks_internal[id].status
                            = tree_internal.tasks_internal[id].status
                  /\ Count(tree_internal'.report_end, id)
                        = Count(tree_internal.report_end, id)
            /\ (~handles[id].mark_done_on_drop
                    /\ handles'[id].strong < handles[id].strong) =>
                  /\ tree_internal' = tree_internal
                  /\ writer_stuck' = writer_stuck]_vars

\* C11 witness: the last clone of a create_task handle is gone after it had
\* been cloned, and the last clone of a pre_spawn handle is gone while its
\* task is still Running
C11_Witness ==
    /\ \E id \in DOMAIN handles :
            /\ handles[id].mark_done_on_drop
            /\ handles[id].strong = 0
            /\ id \in Tasks(tree_internal)
            /\ IsFinished(tree_internal.tasks_internal[id])
    /\ \E id \in DOMAIN handles :
            /\ ~handles[id].mark_done_on_drop
            /\ handles[id].strong = 0
            /\ id \in Tasks(tree_internal)
            /\ ~IsFinished(tree_internal.tasks_internal[id])

\* the status post_spawn gives the task of a closure that returned f
SpawnStatusMatches(task, f) ==
    /\ IsFinished(task)
    /\ IF f.ok THEN task.status.result = Success
       ELSE /\ task.status.result.tag = "Failure"
            /\ task.status.result.msg = <<"[Task]", f.error>>

\* C12: when spawn / spawn_sync has returned, it returns Ok exactly when the
\* closure returned Ok; the spawned task, unless a sweep has removed it in the
\* meantime, is Finished(Success) for Ok and Finished(Failure(msg)) for Err;
\* and the step of the wrapper that finishes it adds its id to report_end
\* once, while no other step of the spawn adds it. (PumpSpec)
C12_SpawnResult ==
    /\ [](\A c \in Callers : spawns[c].pc = "returned" =>
            /\ spawns[c].result[1].ok = spawns[c].closure[1].ok
            /\ spawns[c].id \in Tasks(tree_internal) =>
                  SpawnStatusMatches(tree_internal.tasks_internal[spawns[c].id],
                                     spawns[c].closure[1]))
    /\ [][\A c \in Callers : spawns[c].pc # "idle" =>
            Count(tree_internal'.report_end, spawns[c].id) =
                IF spawns[c].pc = "closure" /\ spawns'[c].pc = "post_flush"
                THEN Count(tree_internal.report_end, spawns[c].id) + 1
                ELSE IF tree_internal'.report_end = <<>> THEN 0
                ELSE Count(tree_internal.report_end, spawns[c].id)]_vars

\* C12 as stated: on return the spawned task is in the tree with the status
\* of the closure's result
C12_FinishedOnReturn ==
    \A c \in Callers : spawns[c].pc = "returned" =>
        /\ spawns[c].result[1].ok = spawns[c].closure[1].ok
        /\ spawns[c].id \in Tasks(tree_internal)
        /\ SpawnStatusMatches(tree_internal.tasks_internal[spawns[c].id],
                              spawns[c].closure[1])

\* C12 witness: a spawn whose closure returned Err has returned Err and its
\* task is in the tree as Failure
C12_Witness ==
    \E c \in Callers :
        /\ spawns[c].pc = "returned"
        /\ ~spawns[c].closure[1].ok
        /\ ~spawns[c].result[1].ok
        /\ spawns[c].id \in Tasks(tree_internal)
        /\ StatusTag(tree_internal.tasks_internal[spawns[c].id]) = "Failure"

\* C13: for an id that is not in tasks_internal (never handed out, or
\* collected), add_data, add_data_transitive_for_task, task_progress,
\* start_trace and mark_done return and give back the tree they were given,
\* queues and tasks_marked_for_deletion included. (DataSpec)
C13_UnknownIdIsNoOp ==
    \A id \in AnyIds \ Tasks(tree_internal) :
        /\ \A key \in DataKeys, value \in DataValues :
              /\ add_data(tree_internal, id, key, value) = tree_internal
              /\ add_data_transitive_for_task(tree_internal, id, key, value)
                    = tree_internal
        /\ task_progress(tree_internal, id, 1, 2) = tree_internal
        /\ start_trace(tree_internal, id) = tree_internal
        /\ \A m \in ErrorMessages :
              mark_done(tree_internal, id, m, now)
                  = [diverges |-> FALSE, tree |-> tree_internal]

\* C13 witness: a collected id, with another task in the tree, ids waiting in
\* both queues and a task marked for deletion
C13_Witness ==
    /\ AllocatedIds \ Tasks(tree_internal) # {}
    /\ Tasks(tree_internal) # {}
    /\ tree_internal.report_start # <<>>
    /\ tree_internal.report_end # <<>>
    /\ DOMAIN tree_internal.tasks_marked_for_deletion # {}

\* C14: the task a step creates under a parent that is in the tree has, in
\* its data_transitive, every key of the parent's data_transitive with the
\* parent's entry, and every other key of the tree-wide data_transitive.
\* (DataSpec)
C14_ChildInheritsTransitiveData ==
    [][\A id \in Tasks(tree_internal') \ Tasks(tree_internal) :
          id \in DOMAIN tree_internal'.child_to_parent =>
            LET p == tree_internal'.child_to_parent[id]
                child == tree_internal'.tasks_internal[id].data_transitive
                parent == tree_internal.tasks_internal[p].data_transitive
            IN  /\ p \in Tasks(tree_internal)
                /\ DOMAIN parent \cup DOMAIN tree_internal.data_transitive
                        \subseteq DOMAIN child
                /\ \A k \in DOMAIN parent : child[k] = parent[k]]_vars

\* C14 witness: a child holds its parent's entry for a key under which the
\* tree-wide data has a different entry
C14_Witness ==
    \E c \in DOMAIN tree_internal.child_to_parent :
        LET p == tree_internal.child_to_parent[c]
        IN  /\ c \in Tasks(tree_internal) /\ p \in Tasks(tree_internal)
            /\ \E k \in DOMAIN tree_internal.data_transitive
                        \cap DOMAIN tree_internal.tasks_internal[p].data_transitive :
                  /\ tree_internal.data_transitive[k]
                        # tree_internal.tasks_internal[p].data_transitive[k]
                  /\ k \in DOMAIN tree_internal.tasks_internal[c].data_transitive
                  /\ tree_internal.tasks_internal[c].data_transitive[k]
                        = tree_internal.tasks_internal[p].data_transitive[k]

\* the tasks of the tree before and after the step whose data_transitive the
\* step changed
TransitiveDataChanged ==
    {id \in Tasks(tree_internal) \cap Tasks(tree_internal') :
        tree_internal'.tasks_internal[id].data_transitive
            # tree_internal.tasks_internal[id].data_transitive}

\* C15: a step changes the data_transitive of at most one task that was
\* already in the tree, and a step that changes the tree-wide data_transitive
\* changes it for none. (DataSpec)
C15_NoRetroactiveTransitiveData ==
    [][/\ Cardinality(TransitiveDataChanged) <= 1
       /\ tree_internal'.data_transitive # tree_internal.data_transitive
            => TransitiveDataChanged = {}]_vars

\* C15 witness: a parent has a transitive key its child does not have, and
\* the tree has one the parent does not have
C15_Witness ==
    \E c \in DOMAIN tree_internal.child_to_parent :
        LET p == tree_internal.child_to_parent[c]
        IN  /\ c \in Tasks(tree_internal) /\ p \in Tasks(tree_internal)
            /\ ~(DOMAIN tree_internal.tasks_internal[p].data_transitive
                    \subseteq DOMAIN tree_internal.tasks_internal[c].data_transitive)
            /\ ~(DOMAIN tree_internal.data_transitive
                    \subseteq DOMAIN tree_internal.tasks_internal[p].data_transitive)

\* the ids handed out so far: those of the inserted tasks and the one a
\* create_task_internal of the second tree holds
HandedOut ==
    [i \in 1..(Len(created) + Len(other_tree.pending)) |->
        IF i <= Len(created) THEN created[i].id ELSE other_tree.pending[1]]

\* C16: no id is handed out twice, in one tree or in two; every id handed out
\* is below the counter; and of two tasks of one tree the one inserted later
\* has the larger id. (IdSpec)
C16_IdsUniqueAndIncreasing ==
    /\ \A i, j \in DOMAIN HandedOut : i # j => HandedOut[i] # HandedOut[j]
    /\ \A i \in DOMAIN HandedOut : HandedOut[i] < INCREMENTAL_UNIQ_ID
    /\ \A i, j \in DOMAIN created :
            (i < j /\ created[i].tree = created[j].tree)
                => created[i].id < created[j].id

\* C16 witness: the first tree got ids on both sides of one of the second
\* tree and has lost a task to the collector
C16_Witness ==
    /\ \E i, j, k \in DOMAIN created :
            /\ i < j /\ j < k
            /\ created[i].tree = 1 /\ created[j].tree = 2 /\ created[k].tree = 1
    /\ \E i \in DOMAIN created :
            created[i].tree = 1 /\ created[i].id \notin Tasks(tree_internal)

\* dump_trace(a) returns a trace that has t with finished_at set
TraceShowsFinished(tree, a, t) ==
    LET trace == dump_trace(tree, a)
    IN  /\ trace.ok
        /\ t \in DOMAIN trace.tasks
        /\ trace.tasks[t].finished_at # None

\* C17: once t is finished below an ancestor a, so that dump_trace(a) shows
\* it with finished_at set, no step makes dump_trace(a) stop showing it while
\* a is in the tree. (Spec)
C17_FinishedStaysInTrace ==
    [][\A a \in Tasks(tree_internal) \cap Tasks(tree_internal') :
          \A t \in Subtree(tree_internal, a) \ {a} :
              TraceShowsFinished(tree_internal, a, t)
                  => TraceShowsFinished(tree_internal', a, t)]_vars

\* a root without children that is finished and whose grace period is over
RootDueForRemoval(id) ==
    /\ id \in Tasks(tree_internal)
    /\ id \in tree_internal.root_tasks
    /\ ChildrenOf(tree_internal, id) = {}
    /\ IsFinished(tree_internal.tasks_internal[id])
    /\ id \in DOMAIN tree_internal.tasks_marked_for_deletion
    /\ now - tree_internal.tasks_marked_for_deletion[id] > remove_task_after_done_ms

\* the task has left tasks_internal, root_tasks and tasks_marked_for_deletion
Removed(id) ==
    /\ id \notin Tasks(tree_internal)
    /\ id \notin tree_internal.root_tasks
    /\ id \notin DOMAIN tree_internal.tasks_marked_for_deletion

\* C18: a finished root without children whose grace period is over is
\* eventually gone from tasks_internal, root_tasks and
\* tasks_marked_for_deletion. (LiveSpec)
C18_FinishedRootIsCollected ==
    \A id \in 0..(MaxTasks - 1) : RootDueForRemoval(id) ~> Removed(id)

\* C19: whatever a reporter call did, the pump thread is still running, no
\* spawn was left by a panic, and once nothing is left to deliver every
\* reporter that never panicked has received the start event of every task
\* created after it was registered. (PanicSpec)
C19_ReporterPanicIsIsolated ==
    /\ ~panicked.pump
    /\ \A c \in Callers : spawns[c].pc # "panicked"
    /\ Quiescent =>
          \A id \in AllocatedIds :
              \A r \in ReportersBefore(id) \ panicked.reporters :
                  EventsOf(r, id, "task_start") # {}

\* reporter r has received the event for task id when the step is over
ReceivedAfterStep(r, id, event) ==
    \E i \in DOMAIN delivered'[r][id] : delivered'[r][id][i].event = event

\* C20: with force_flush on, when a step that is a whole create_task or
\* Task::create call is over, every reporter has received the start event of
\* the task it created; and when a step that is the mark_done of a handle's
\* drop is over, every reporter that saw the task created has received its
\* end event. (PumpSpec)
C20_ForceFlushOnCreateAndDrop ==
    [][force_flush =>
        /\ \A id \in Tasks(tree_internal') \ Tasks(tree_internal) :
              id \notin SpawnedIds' =>
                \A r \in 1..tree_internal.reporters :
                    ReceivedAfterStep(r, id, "task_start")
        /\ \A id \in (Tasks(tree_internal) \cap Tasks(tree_internal')) \ SpawnedIds :
              (~IsFinished(tree_internal.tasks_internal[id])
                    /\ IsFinished(tree_internal'.tasks_internal[id])) =>
                \A r \in ReportersBefore(id) :
                    ReceivedAfterStep(r, id, "task_end")]_vars

\* C21: tags never decide what the tree delivers. Once nothing is queued or
\* in flight, every task still in the tree, whatever its tags (dontprint, a
\* level above a reporter's bound), has had its start event, and its end
\* event once Finished, handed exactly once to every reporter registered
\* before it was created; only the text reporters leave lines out.
C21_TagsDoNotAffectDelivery ==
    (Quiescent /\ ~writer_stuck) =>
        \A id \in Tasks(tree_internal) : \A r \in ReportersBefore(id) :
            /\ Cardinality(EventsOf(r, id, "task_start")) = 1
            /\ IsFinished(tree_internal.tasks_internal[id]) =>
                    Cardinality(EventsOf(r, id, "task_end")) = 1
            /\ \A i \in DOMAIN delivered[r][id] :
                    delivered[r][id][i].tags = tree_internal.tasks_internal[id].tags

\* a reporter has received both events of a task tagged dontprint and of a
\* task tagged l3, for which a StringReporter holds no line and a
\* StdioReporter bound to L1 prints none
C21_Witness ==
    /\ Quiescent
    /\ \E id \in Tasks(tree_internal) : \E r \in ReportersBefore(id) :
            /\ DONTPRINT_TAG \in tree_internal.tasks_internal[id].tags
            /\ Len(delivered[r][id]) = 2
            /\ StringReporter_output(r, id) = <<>>
    /\ \E id \in Tasks(tree_internal) : \E r \in ReportersBefore(id) :
            /\ <<"l3">> \in tree_internal.tasks_internal[id].tags
            /\ Len(delivered[r][id]) = 2
            /\ Len(StringReporter_output(r, id)) = 2
            /\ StdioReporter_output(r, id, DefaultLevel, TRUE) = <<>>

\* the elements of a sequence
Range(seq) == {seq[i] : i \in DOMAIN seq}

\* a string with no whitespace at either end and at least one symbol
IsTrimmed(str) == str # <<>> /\ trim(str) = str

\* C22: extract_tags of a name followed by " #" + tag for every tag returns
\* the name with an empty tag set when there is no tag, and returns exactly
\* (name, set of the tags) when the name and every tag are non-empty and
\* carry no whitespace at their ends (and no '#').
C22_ExtractTagsRoundTrip ==
    (eval.fn = "extract_tags" /\ eval.result # None) =>
        /\ eval.tags = <<>> => eval.result[1] = [key |-> eval.name, tags |-> {}]
        /\ (IsTrimmed(eval.name) /\ \A tag \in Range(eval.tags) : IsTrimmed(tag)) =>
                eval.result[1] = [key |-> eval.name, tags |-> Range(eval.tags)]

\* C22 as stated: (name, set of the tags) comes back for every name without
\* '#' and every set of non-empty tags without '#'
C22_AnyNameAnyTags ==
    (eval.fn = "extract_tags" /\ eval.result # None) =>
        eval.result[1] = [key |-> eval.name, tags |-> Range(eval.tags)]

\* "a #t #tt" has been split into the name "a" and the tags "t" and "tt"
C22_Witness ==
    /\ eval.fn = "extract_tags"
    /\ eval.name = <<"a">>
    /\ Range(eval.tags) = {<<"t">>, <<"t", "t">>}
    /\ eval.result = Some([key |-> <<"a">>, tags |-> {<<"t">>, <<"t", "t">>}])

\* the level tags among the tags of an entry
LevelTagsOf(entry) == {tag \in entry.tags : LogLevelOfTag(tag) # None}

\* the entry carries a level tag and each of its level tags is above the
\* level: its lowest level tag is strictly greater
LowestLevelAbove(entry, level) ==
    /\ LevelTagsOf(entry) # {}
    /\ \A tag \in LevelTagsOf(entry) : LogLevelOfTag(tag)[1] > level

\* C23: Data.filter_for_level(L) removes exactly the entries whose lowest
\* level tag is strictly greater than L and leaves every other entry, those
\* without a level tag included, as it was.
C23_FilterForLevel ==
    (eval.fn = "filter_for_level" /\ eval.result # None) =>
        /\ DOMAIN eval.result[1] =
                {key \in DOMAIN eval.data : ~LowestLevelAbove(eval.data[key], eval.level)}
        /\ \A key \in DOMAIN eval.result[1] : eval.result[1][key] = eval.data[key]

\* at level Info the entry "k" tagged info and trace has been kept and the
\* entry "j" tagged trace has been removed
C23_Witness ==
    /\ eval.fn = "filter_for_level"
    /\ eval.level = Info
    /\ DOMAIN eval.data = FilterKeys
    /\ eval.data[<<"k">>].tags = {<<"info">>, <<"trace">>}
    /\ eval.data[<<"j">>].tags = {<<"trace">>, <<"other">>}
    /\ eval.result # None
    /\ DOMAIN eval.result[1] = {<<"k">>}

\* the done blocks of a bar
FilledCells(bar) == Cardinality({i \in DOMAIN bar : bar[i] = "done"})

\* C26: for progress (done, total) with total > 0 and 0 <= done <= total the
\* bar has exactly 30 cells, the filled ones first, and their number is
\* floor(30 * p / 100) where p = floor(100 * done / total) is the whole
\* percentage: floor(30 * done / total) or one less, and 30 when done = total.
C26_ProgressBar ==
    (eval.fn = "make_progress" /\ eval.result # None) =>
        LET bar == eval.result[1]
            filled == FilledCells(bar)
            floor == (30 * eval.done) \div eval.total
        IN  /\ Len(bar) = 30
            /\ \A i \in 1..30 : bar[i] = "done" <=> i <= filled
            /\ filled = (30 * ((100 * eval.done) \div eval.total)) \div 100
            /\ filled \in {floor - 1, floor}
            /\ eval.done = eval.total => filled = 30

\* C26 as stated: the number of filled cells is floor(30 * done / total)
C26_FilledIsFloor ==
    (eval.fn = "make_progress" /\ eval.result # None) =>
        /\ Len(eval.result[1]) = 30
        /\ FilledCells(eval.result[1]) = (30 * eval.done) \div eval.total

\* the bar of progress (1, 4) has been drawn with 7 of its 30 cells filled
C26_Witness ==
    /\ eval.fn = "make_progress"
    /\ eval.done = 1 /\ eval.total = 4
    /\ eval.result # None
    /\ Len(eval.result[1]) = 30
    /\ FilledCells(eval.result[1]) = 7

\* the tasks make_status_rows reaches: the roots and what hangs under them
Drawn(tree) ==
    UNION {Subtree(tree, root) : root \in tree.root_tasks} \cap Tasks(tree)

\* the ancestors of id that the renderer prints
VisibleAncestors(tree, id, max_log_level) ==
    {a \in Ancestors(tree, id) \cap Tasks(tree) :
        should_print(tree.tasks_internal[a], max_log_level)}

\* the ids of the rows of a frame
RowIds(rows) == {rows[i].id : i \in DOMAIN rows}

\* C24: in the frame built for any max_log_level a hidden task (tagged
\* nostatus or with a level above the bound) has no row, every visible task
\* under a root has exactly one row, also below hidden tasks, and the indent
\* depth of a row is the number of visible ancestors of its task, zero for the
\* visible children of a hidden root.
C24_IndentIsVisibleDepth ==
    \A max_log_level \in Levels :
        LET tree == tree_internal
            frame == make_status_rows(tree, max_log_level)
        IN  frame.ok =>
                /\ RowIds(frame.rows) =
                        {id \in Drawn(tree) :
                            should_print(tree.tasks_internal[id], max_log_level)}
                /\ \A i, j \in DOMAIN frame.rows :
                        frame.rows[i].id = frame.rows[j].id => i = j
                /\ \A i \in DOMAIN frame.rows :
                        Len(frame.rows[i].indent) =
                            Cardinality(VisibleAncestors(tree, frame.rows[i].id,
                                                         max_log_level))

\* a hidden root with a visible child and a visible grandchild has been drawn
\* at the default level: the child at depth 0, the grandchild at depth 1
C24_Witness ==
    LET tree == tree_internal
        frame == make_status_rows(tree, DefaultLevel)
    IN  /\ frame.ok
        /\ Len(frame.rows) = 2
        /\ \E root \in tree.root_tasks :
                /\ ~should_print(tree.tasks_internal[root], DefaultLevel)
                /\ frame.rows[1].id \in ChildrenOf(tree, root)
                /\ frame.rows[1].indent = <<>>
                /\ frame.rows[2].id \in ChildrenOf(tree, frame.rows[1].id)
                /\ Len(frame.rows[2].indent) = 1

\* the closest ancestor of id that the renderer prints, if any
RECURSIVE ClosestVisibleAncestor(_, _, _)
ClosestVisibleAncestor(tree, id, max_log_level) ==
    IF id \notin DOMAIN tree.child_to_parent THEN None
    ELSE LET parent == tree.child_to_parent[id]
         IN  IF /\ parent \in Tasks(tree)
                /\ should_print(tree.tasks_internal[parent], max_log_level)
             THEN Some(parent)
             ELSE ClosestVisibleAncestor(tree, parent, max_log_level)

\* the row of task id in a frame
RowOf(rows, id) == CHOOSE i \in DOMAIN rows : rows[i].id = id

\* the rows are in depth-first order: a row comes after the row of its closest
\* visible ancestor, with only rows from under that ancestor in between
DepthFirst(tree, rows, max_log_level) ==
    \A i \in DOMAIN rows :
        LET closest == ClosestVisibleAncestor(tree, rows[i].id, max_log_level)
        IN  closest # None =>
                /\ RowOf(rows, closest[1]) < i
                /\ \A j \in (RowOf(rows, closest[1]) + 1)..i :
                        closest[1] \in VisibleAncestors(tree, rows[j].id, max_log_level)

\* the row is the last one of the rows attached to the same closest visible
\* ancestor, the re-attached ones included
LastAttached(tree, rows, i, max_log_level) ==
    \A j \in DOMAIN rows :
        ClosestVisibleAncestor(tree, rows[j].id, max_log_level) =
            ClosestVisibleAncestor(tree, rows[i].id, max_log_level) => j <= i

\* C25: in the frame built for any max_log_level the rows are the visible
\* tasks in depth-first order, and the final indent glyph of an indented row
\* is the 'last' glyph exactly when its task is the last visible task attached
\* to its closest visible ancestor, and the 'continuation' glyph otherwise.
C25_LastGlyphOnLastAttached ==
    \A max_log_level \in Levels :
        LET tree == tree_internal
            frame == make_status_rows(tree, max_log_level)
        IN  frame.ok =>
                /\ DepthFirst(tree, frame.rows, max_log_level)
                /\ \A i \in DOMAIN frame.rows :
                        LET indent == frame.rows[i].indent
                        IN  indent # <<>> =>
                                IF LastAttached(tree, frame.rows, i, max_log_level)
                                THEN indent[Len(indent)] = GlyphLast
                                ELSE indent[Len(indent)] = GlyphContinuation

\* the rows of every frame are in depth-first order
FrameIsDepthFirst ==
    \A max_log_level \in Levels :
        LET frame == make_status_rows(tree_internal, max_log_level)
        IN  frame.ok => DepthFirst(tree_internal, frame.rows, max_log_level)

\* make_status_rows finds every task it visits
FrameBuilderFindsItsTasks ==
    \A max_log_level \in Levels : make_status_rows(tree_internal, max_log_level).ok

\* C27: dump_trace of any id handed out so far and the frame builder never
\* fail because a task they visit is missing from the tree: both return Ok,
\* with the missing node left out.
C27_MissingNodeIsSkipped ==
    /\ \A id \in AllocatedIds : dump_trace(tree_internal, id).ok
    /\ FrameBuilderFindsItsTasks

\* C28: every mark_done call returns and releases the write lock, also when
\* child_to_parent names a parent that the collector has removed: no thread
\* is ever left inside mark_done holding the lock.
C28_MarkDoneReturns ==
    ~writer_stuck

\* the tasks marked for deletion
Marked(tree) == DOMAIN tree.tasks_marked_for_deletion

\* id and everything under it that is in the tree is Finished
SubtreeFinished(tree, id) ==
    \A s \in Subtree(tree, id) \cap Tasks(tree) : IsFinished(tree.tasks_internal[s])

\* C29: a task enters the marked-for-deletion map only in a state where it
\* and all its transitive descendants are Finished and neither it nor any of
\* its ancestors holds its subtree (keep_subtree_until_finished while
\* Running); so a task that has a Running descendant when it finishes is not
\* marked by that mark_done.
C29_MarkedOnlyWhenSubtreeDone ==
    [][\A id \in Marked(tree_internal') \ Marked(tree_internal) :
            /\ id \in Tasks(tree_internal')
            /\ SubtreeFinished(tree_internal', id)
            /\ \A a \in {id} \cup Ancestors(tree_internal', id) :
                    ~Holds(tree_internal', a)]_vars

\* a Finished task with a Running descendant has stayed unmarked while
\* another task is marked, and a Finished task under a holding ancestor has
\* stayed unmarked as well
C29_Witness ==
    LET tree == tree_internal
    IN  /\ Marked(tree) # {}
        /\ \E id \in Tasks(tree) \ Marked(tree) :
                /\ IsFinished(tree.tasks_internal[id])
                /\ \/ ~SubtreeFinished(tree, id)
                   \/ \E a \in Ancestors(tree, id) : Holds(tree, a)

\* the tasks from id up to its ancestor a, both included
PathTo(tree, id, a) ==
    {b \in {id} \cup Ancestors(tree, id) : b = a \/ a \in Ancestors(tree, b)}

\* C30: when a mark_done call that returns finishes a Running task, every
\* ancestor that is not held and whose whole subtree is Finished, as is the
\* subtree of every task between them, is marked when the call returns; the
\* marking stops at the first ancestor that is Running or has an unfinished
\* subtree: no ancestor above it is newly marked.
C30_MarkingClimbs ==
    [][\A id \in Tasks(tree_internal) :
            (/\ ~IsFinished(tree_internal.tasks_internal[id])
             /\ id \in Tasks(tree_internal')
             /\ IsFinished(tree_internal'.tasks_internal[id])
             /\ ~writer_stuck') =>
                \A a \in ({id} \cup Ancestors(tree_internal', id)) \cap Tasks(tree_internal') :
                    LET climbs ==
                            \A b \in PathTo(tree_internal', id, a) :
                                SubtreeFinished(tree_internal', b)
                        is_held ==
                            \E h \in {a} \cup Ancestors(tree_internal', a) :
                                Holds(tree_internal', h)
                    IN  /\ (climbs /\ ~is_held) => a \in Marked(tree_internal')
                        /\ ~climbs => (a \in Marked(tree_internal') =>
                                            a \in Marked(tree_internal))]_vars

\* a parent that finished first and its child that finished later have been
\* marked by the same call: the mark_done of the child
C30_Witness ==
    LET tree == tree_internal
    IN  \E c \in DOMAIN tree.child_to_parent \cap Tasks(tree) :
            LET p == tree.child_to_parent[c]
            IN  /\ p \in Tasks(tree)
                /\ {c, p} \subseteq Marked(tree)
                /\ IsFinished(tree.tasks_internal[c])
                /\ IsFinished(tree.tasks_internal[p])
                /\ tree.tasks_internal[p].status.finished_at
                        < tree.tasks_internal[c].status.finished_at
                /\ tree.tasks_marked_for_deletion[p] = tree.tasks_marked_for_deletion[c]

\* C31: the renderer never holds the stdio gate (the stdout and stderr
\* locks) while it waits for the tree's reader lock: no render loop is at
\* its request for the reader lock with the stdio locks in its hands.
C31_NoStdioAcrossReaderWait ==
    \A l \in DOMAIN term.loops :
        term.loops[l].pc = "print" => term.stdio # Some(l)

\* C36: in every iteration of a render loop the erase step moves the cursor
\* up by exactly the lines the paint step before it moved it down: when the
\* iteration ends after clear, the cursor is on the row it was on before
\* print, whatever the heights of this frame and the previous one.
C36_EraseUndoesPaint ==
    [][\A l \in DOMAIN term.loops :
            (term.loops[l].pc = "painted" /\ term'.loops[l].pc = "sleep") =>
                term'.cursor = term.loops[l].row]_vars

\* C37: at most one render loop thread is active for the TermStatus at any
\* time, for every interleaving of show() and hide() with the running loop.
C37_OneRenderLoop ==
    Cardinality(ActiveLoops) <= 1

\* ------------------------------------------ the locks around the callbacks
\* post_spawn up to its error_msg: the closure returned closure_result, the
\* context is attached, and for an Err the error formatter is cloned out of
\* the tree under a read guard that lives in the inner block only; the
\* formatter (or format!("{:?}")) runs next
PostSpawnFormat(c, closure_result) ==
    LET result == with_context(closure_result, "[Task]")
    IN  /\ spawns[c].pc = "closure"
        /\ result.ok \/ ~writer_stuck
        /\ spawns' = [spawns EXCEPT ![c].pc = "error_msg",
                                    ![c].closure = Some(closure_result),
                                    ![c].result = Some(result)]
        /\ held' = IF result.ok THEN held ELSE [held EXCEPT ![c] = drop("read")]
        /\ UNCHANGED <<tree_internal, force_flush, INCREMENTAL_UNIQ_ID, now,
                       writer_stuck, calls, delivered, registered_at, hist>>

\* post_spawn from its mark_done on
PostSpawnMarkDone(c) ==
    /\ ~writer_stuck
    /\ spawns[c].pc = "error_msg"
    /\ DoMarkDone(spawns[c].id, error_msg(spawns[c].result[1]))
    /\ spawns' = [spawns EXCEPT
                    ![c].pc = IF writer_stuck' THEN "stuck" ELSE "post_flush"]
    /\ UNCHANGED <<force_flush, INCREMENTAL_UNIQ_ID, now, calls, delivered,
                   registered_at, hist, held>>

\* The spawn wrappers step by step, next to the pump thread and its reporters:
\* the closure, the error formatter and the reporter calls each run in a state
\* of their own.
LockNext ==
    \/ AddReporter
    \/ \E enabled \in {TRUE} : SetForceFlush(enabled)
    \/ \E parent \in ParentChoices :
            INCREMENTAL_UNIQ_ID < MaxPumpTasks /\ CreateTask(parent)
    \/ PumpSwap
    \/ \E th \in Threads : Deliver(th)
    \/ \E c \in Callers, parent \in ParentChoices :
            INCREMENTAL_UNIQ_ID < MaxPumpTasks /\ PreSpawn(c, parent)
    \/ \E c \in Callers : PreSpawnFlush(c)
    \/ \E c \in Callers, result \in ClosureResults : PostSpawnFormat(c, result)
    \/ \E c \in Callers : PostSpawnMarkDone(c)
    \/ \E c \in Callers : PostSpawnFlush(c)

LockSpec == Init /\ [][LockNext]_vars

\* C32: whenever a thread has reporter calls of a report_all left to make, and
\* whenever a caller is inside the closure given to spawn / spawn_sync or at
\* the error formatter of post_spawn, that thread holds neither the read nor
\* the write lock of the tree.
C32_NoCallbackUnderTreeLock ==
    /\ \A th \in Threads : calls[th] # <<>> => held[th] = "none"
    /\ \A c \in Callers :
            spawns[c].pc \in {"closure", "error_msg"} => held[c] = "none"

\* the pump thread is about to call a reporter while a caller, whose own
\* report_all of pre_spawn made its calls, is at the error formatter with an
\* Err
C32_Witness ==
    /\ calls[PumpThread] # <<>>
    /\ \E c \in Callers : /\ spawns[c].pc = "error_msg"
                          /\ ~spawns[c].result[1].ok
                          /\ spawns[c].flushed
                          /\ \E r \in ReporterIds :
                                delivered[r][spawns[c].id] # <<>>

\* ------------------------------------------------------- the text reporter
\* TaskInternal::full_name: the id, "-", the names of the ancestors each
\* followed by ":", the name
RECURSIVE JoinParents(_)
JoinParents(parent_names) ==
    IF parent_names = <<>> THEN <<>>
    ELSE Head(parent_names) \o <<":">> \o JoinParents(Tail(parent_names))

full_name(task_internal) ==
    <<ToString(task_internal.id), "-">>
        \o JoinParents(task_internal.parent_names) \o task_internal.name

IsFailure(task_internal) ==
    IsFinished(task_internal) /\ task_internal.status.result.tag = "Failure"

\* text::format_name, colours stripped: a failed task gets "[ERR] " in front
\* of its full name whatever the report type
format_name(task_internal, report_type) ==
    IF IsFailure(task_internal)
    THEN <<"[ERR]", " ">> \o full_name(task_internal)
    ELSE full_name(task_internal)

\* text::format_timestamp with TimestampFormat::Redacted
format_timestamp(task_internal, report_type) ==
    <<"[ ]", " ">>

\* text::format_status with DurationFormat::None
format_status(task_internal, report_type) ==
    IF report_type = "Start" THEN <<"|", " ", "STARTING", " ", "|", " ">> ELSE <<>>

\* the lines format_data makes of one map: an entry tagged dontprint is
\* skipped
DataLines(map) ==
    {[key |-> k, value |-> map[k].value] :
        k \in {d \in DOMAIN map : DONTPRINT_TAG \notin map[d].tags}}

\* text::format_data over TaskInternal::all_data: the lines of data, then the
\* lines of data_transitive (each group in key order)
format_data(task_internal) ==
    [data |-> DataLines(task_internal.data),
     data_transitive |-> DataLines(task_internal.data_transitive)]

\* text::format_error: the message of a failed task (behind a "  |" line,
\* each of its lines behind "  |  ")
format_error(task_internal) ==
    IF IsFailure(task_internal) THEN Some(task_internal.status.result.msg) ELSE None

\* text::make_string as StringReporter::new sets it up: the first line, and
\* for an end report the data lines and the error
make_string(task_internal, report_type) ==
    [line |-> format_timestamp(task_internal, report_type)
                \o format_status(task_internal, report_type)
                \o format_name(task_internal, report_type),
     data |-> IF report_type = "End" THEN format_data(task_internal)
              ELSE [data |-> {}, data_transitive |-> {}],
     error |-> IF report_type = "End" THEN format_error(task_internal) ELSE None]

\* C33: the tasks a report_all hands to the reporters are the tasks as they
\* are in the tree when the queues are swapped out, and the line a
\* StringReporter makes of a task_start whose task has failed by then is
\* "[ ] | STARTING | [ERR] " followed by the full name.
C33_SnapshotAtDrainTime ==
    [][\A th \in Threads :
            (calls[th] = <<>> /\ calls'[th] # <<>>) =>
                \A i \in DOMAIN calls'[th] :
                    LET call == calls'[th][i]
                    IN  /\ call.task = tree_internal.tasks_internal[call.task.id]
                        /\ (call.event = "task_start" /\ IsFailure(call.task)) =>
                              make_string(call.task, "Start").line =
                                  <<"[ ]", " ", "|", " ", "STARTING", " ", "|", " ",
                                    "[ERR]", " ">> \o full_name(call.task)]_vars

\* a reporter has been handed the task_start of a task that was failed when
\* the queue was drained
C33_Witness ==
    \E r \in ReporterIds : \E id \in DOMAIN delivered[r] :
        \E i \in DOMAIN delivered[r][id] :
            /\ delivered[r][id][i].event = "task_start"
            /\ delivered[r][id][i].status = "Failure"

\* ------------------------------------------------- printed transitive data
\* tasks of the tree below
MaxPrintTasks == 3
\* data values 1..MaxPrintValue
MaxPrintValue == 2

\* the keys of logger_data_test: "request_id" and "request_id #dontprint"
RequestKeys == {<<"request_id">>, <<"request_id", " ", "#", "dontprint">>}
PrintValues == 1..MaxPrintValue

\* Transitive data and what the text reporter prints of it: tasks are created
\* under each other and given transitive data under a key with and without
\* the dontprint tag, on the task, on the whole tree and as data of their own.
PrintNext ==
    \/ \E parent \in ParentChoices :
            INCREMENTAL_UNIQ_ID < MaxPrintTasks /\ CreateTask(parent)
    \/ \E id \in Tasks(tree_internal), key \in RequestKeys, value \in PrintValues :
            AddDataTransitiveForTask(id, key, value)
    \/ \E key \in RequestKeys, value \in PrintValues : AddDataTransitive(key, value)
    \/ \E id \in Tasks(tree_internal) : AddData(id, <<"request_id">>, 1)

PrintSpec == Init /\ [][PrintNext]_vars

\* the keys of the data lines the text reporter prints at the end of a task
PrintedKeys(task_internal) ==
    LET data == make_string(task_internal, "End").data
    IN  {line.key : line \in data.data \cup data.data_transitive}

\* the entry under key k is there and tagged dontprint
IsDontprint(data, k) ==
    k \in DOMAIN data /\ DONTPRINT_TAG \in data[k].tags

TaggedLevels(tags) ==
    {l \in Levels : \/ (<<"l0">> \in tags /\ l = 0)
                    \/ (<<"l1">> \in tags /\ l = 1)
                    \/ (<<"l2">> \in tags /\ l = 2)
                    \/ (<<"l3">> \in tags /\ l = 3)}

\* the level of a task: the minimum of its l0 .. l3 tags, L1 without one
TaskLevel(tags) ==
    IF TaggedLevels(tags) = {} THEN 1
    ELSE CHOOSE l \in TaggedLevels(tags) : \A m \in TaggedLevels(tags) : l <= m

\* C35: a StdioReporter prints for a delivered event exactly when the level
\* of the task is at most max_log_level, the task has no dontprint tag and,
\* for a start event, log_task_start is set.
C35_StdioReporterPrints ==
    (eval.fn = "StdioReporter" /\ eval.result # None) =>
        (eval.result[1] <=>
            /\ TaskLevel(eval.tags) <= eval.max_log_level
            /\ DONTPRINT_TAG \notin eval.tags
            /\ eval.event = "task_start" => eval.log_task_start)

\* the start of a task tagged l3 and l0 has been printed by a reporter with
\* max_log_level L0 and log_task_start
C35_Witness ==
    /\ eval.fn = "StdioReporter"
    /\ eval.event = "task_start"
    /\ eval.tags = {<<"l0">>, <<"l3">>}
    /\ eval.max_log_level = 0
    /\ eval.log_task_start
    /\ eval.result = Some(TRUE)

\* ------------------------------------------------- tasks under a lost parent
\* tasks of the tree below
MaxOrphanTasks == 3

\* Task::create through a handle, or create_task: as CreateNamedTask, and the
\* arguments of the call are kept
CreateUnder(parent) ==
    /\ CreateTaskData(PlainName, parent)
    /\ eval' = [fn |-> "create_task_internal", parent |-> parent, id |-> UniqID_new.id]

\* Handles that outlive their task: tasks are created under any id ever handed
\* out, given transitive data, finished and collected.
OrphanNext ==
    \/ Tick
    \/ \E parent \in ParentChoices :
            INCREMENTAL_UNIQ_ID < MaxOrphanTasks /\ CreateUnder(parent)
    \/ \E id \in Tasks(tree_internal) : AddDataTransitiveForTask(id, <<"j">>, 1)
    \/ AddDataTransitive(<<"k">>, 1)
    \/ \E id \in Tasks(tree_internal) :
            /\ ~IsFinished(tree_internal.tasks_internal[id])
            /\ MarkDone(id, None)
    \/ GcSweep

OrphanSpec == Init /\ [][OrphanNext]_vars

\* C38: a create_task_internal whose parent id is not in tasks_internal makes
\* a root: the new id is in root_tasks, child_to_parent and parent_to_children
\* are as they were, parent_names is empty and data_transitive is the tree's.
C38_MissingParentMakesRoot ==
    [][\A p \in AllocatedIds \ Tasks(tree_internal) :
            (eval' # eval /\ eval'.fn = "create_task_internal" /\ eval'.parent = Some(p)) =>
                LET id == eval'.id
                    task == tree_internal'.tasks_internal[id]
                IN  /\ id \in Tasks(tree_internal')
                    /\ id \in tree_internal'.root_tasks
                    /\ tree_internal'.child_to_parent = tree_internal.child_to_parent
                    /\ tree_internal'.parent_to_children = tree_internal.parent_to_children
                    /\ task.parent_names = <<>>
                    /\ task.data_transitive = tree_internal.data_transitive]_vars

\* the last task was created through the handle of a task that is not in the
\* tree, while the tree has tree-wide transitive data and another task has
\* transitive data of its own: it is a root and holds the tree-wide entry only
C38_Witness ==
    /\ eval.fn = "create_task_internal"
    /\ eval.parent # None
    /\ eval.parent[1] \notin Tasks(tree_internal)
    /\ eval.id \in tree_internal.root_tasks
    /\ DOMAIN tree_internal.data_transitive = {<<"k">>}
    /\ tree_internal.tasks_internal[eval.id].data_transitive = tree_internal.data_transitive
    /\ \E other \in Tasks(tree_internal) :
            <<"j">> \in DOMAIN tree_internal.tasks_internal[other].data_transitive

\* C39: every id of tasks_marked_for_deletion is the id of a task of
\* tasks_internal that is Finished, and as long as an id stays in the map its
\* instant stays the one it was given when it was put there.
C39_MarkedArePresentAndFinished ==
    /\ [](\A id \in DOMAIN tree_internal.tasks_marked_for_deletion :
            /\ id \in Tasks(tree_internal)
            /\ IsFinished(tree_internal.tasks_internal[id]))
    /\ [][\A id \in DOMAIN tree_internal.tasks_marked_for_deletion
                        \cap DOMAIN tree_internal'.tasks_marked_for_deletion :
            tree_internal'.tasks_marked_for_deletion[id] =
                tree_internal.tasks_marked_for_deletion[id]]_vars

\* a child marked at one instant and its parent marked at a later one: the
\* pass that marked the parent went over the child, which kept its instant
C39_Witness ==
    \E c \in DOMAIN tree_internal.child_to_parent :
        LET p == tree_internal.child_to_parent[c]
            marked == tree_internal.tasks_marked_for_deletion
        IN  /\ c \in DOMAIN marked
            /\ p \in DOMAIN marked
            /\ marked[c] < marked[p]

\* the ids of the tasks the calls cs hand to reporter r as event, in order
CalledIds(cs, r, event) ==
    LET sel == SelectSeq(cs, LAMBDA call : call.reporter = r /\ call.event = event)
    IN  [i \in DOMAIN sel |-> sel[i].task.id]

\* the ids of a queue whose task is in the tree, in order
PresentIds(tree, ids) ==
    SelectSeq(ids, LAMBDA id : id \in Tasks(tree))

\* q is p with ids appended
IsPrefix(p, q) ==
    Len(p) <= Len(q) /\ SubSeq(q, 1, Len(p)) = p

\* C40: a queue only grows at its end or is emptied, and then the other queue
\* is emptied with it; the step in which a thread's report_all takes its
\* events leaves both queues empty, gives that thread, for every reporter, one
\* task_start call per queued start id and one task_end call per queued end
\* id whose task is in the tree, in queue order, and changes the calls of no
\* other thread.
C40_EachEventTakenOnce ==
    [][/\ \/ /\ IsPrefix(tree_internal.report_start, tree_internal'.report_start)
             /\ IsPrefix(tree_internal.report_end, tree_internal'.report_end)
          \/ /\ tree_internal'.report_start = <<>>
             /\ tree_internal'.report_end = <<>>
       /\ \A th \in Threads :
            (calls[th] = <<>> /\ calls'[th] # <<>>) =>
                /\ tree_internal'.report_start = <<>>
                /\ tree_internal'.report_end = <<>>
                /\ \A other \in Threads \ {th} : calls'[other] = calls[other]
                /\ \A r \in ReporterIds :
                    /\ CalledIds(calls'[th], r, "task_start") =
                            IF r <= tree_internal.reporters
                            THEN PresentIds(tree_internal, tree_internal.report_start)
                            ELSE <<>>
                    /\ CalledIds(calls'[th], r, "task_end") =
                            IF r <= tree_internal.reporters
                            THEN PresentIds(tree_internal, tree_internal.report_end)
                            ELSE <<>>]_vars

\* the report_all of the pump thread and the one of a force-flushing caller
\* are both between their swap and their last reporter call
C40_Witness ==
    /\ calls[PumpThread] # <<>>
    /\ \E c \in Callers : calls[c] # <<>>
    /\ tree_internal.report_start = <<>>
    /\ tree_internal.report_end = <<>>
====
